---- MODULE Spec2Model ----
(***************************************************************************)
(* Job orchestration of the REST conversion service                        *)
(* (src/api/services/conversion_service.py, src/api/routers/converter.py). *)
(*                                                                         *)
(* The Redis store is a map from job key to a hash (field -> string) with  *)
(* a per-key expiration clock.  create_conversion_job, process_document,   *)
(* get_job_status and get_job_details are broken at their await points:    *)
(* the code between two awaits runs atomically on the event loop, the      *)
(* conversion itself runs in a worker thread.  Every store write of the    *)
(* orchestrator may raise (connection failure); a write that raises has    *)
(* not reached the store.  Time passes in steps of TickLen seconds.        *)
(*                                                                         *)
(* Spec is the service with a polling client and the store's clock,        *)
(* SpecCreate is MaxCalls concurrent uploads, and SpecAnalyzer is one call *)
(* of analyze_document, analyze_sections, _extract_content_sample or       *)
(* _detect_content_type (src/tools/token_analyzer.py) or of count_tokens   *)
(* (src/tools/token_counter.py) on arguments drawn from bounded sets       *)
(* (strings are sequences of characters).  SpecConvert is one POST         *)
(* /convert request through convert_document, SpecBatch is one call of     *)
(* processar_em_lote (src/tools/document_converter.py), and SpecRate is    *)
(* MaxRequests concurrent requests through rate_limiter                    *)
(* (src/api/dependencies.py) with a clock in seconds.                      *)
(***************************************************************************)
EXTENDS Integers, Sequences, FiniteSets, TLC

\* ---------------------------------------------------------------- bounds
MaxJobs == 1
TickLen == 43200
TokPos == 5
MaxCalls == 2
MaxSections == 3
MaxMapLen == 2
MaxSize == 10
MaxWords == 3

\* ------------------------------------------------------- program constants
JOB_TTL_PROCESSING == 3600
JOB_TTL_COMPLETED == 86400
JOB_TTL_FAILED == 86400
DefaultLimit == 8000
MetadataChars == 1000
MaxParagraphs == 20
MaxTitles == 100

\* Redis TTL of a key without expiration
NoTTL == -1

\* job ids handed out by uuid4 (each at most once); id 0 is never handed out
JobIds == 1..MaxJobs
AllIds == 0..MaxJobs

\* ConversionRequest values the routine branches on
ProfileType == {"llms-min", "llms-full"}
OutputFormat == {"llms", "json"}
ConversionRequest == [profile : ProfileType, output_formats : {{"llms"}, {"llms", "json"}}, to_langchain : BOOLEAN]
NoParams == [profile |-> "llms-min", output_formats |-> {"llms"}, to_langchain |-> FALSE]

\* ------------------------------------------------------------ Redis hash
EmptyHash == [f \in {} |-> ""]

\* HSET key mapping: merges the fields, creating the key when it is absent
HSet(h, m) == [f \in (DOMAIN h) \cup (DOMAIN m) |-> IF f \in DOMAIN m THEN m[f] ELSE h[f]]

\* dict.get(field): None is modelled by the string "None"
None == "None"
Get(h, f) == IF f \in DOMAIN h THEN h[f] ELSE None

\* float(str) of the progress strings the orchestrator writes, in hundredths
Float(s) == CASE s = "0" -> 0
              [] s = "0.1" -> 10
              [] s = "0.2" -> 20
              [] s = "0.7" -> 70
              [] s = "0.8" -> 80
              [] s = "0.9" -> 90
              [] s = "0.95" -> 95
              [] s = "1.0" -> 100

VARIABLES
    redis,      \* job id -> hash stored under job:<id> (EmptyHash: no key)
    ttl,        \* job id -> seconds left before the key is evicted, or NoTTL
    files,      \* job id -> the temporary upload file exists
    params,     \* job id -> ConversionRequest of the job
    cpc,        \* job id -> position of create_conversion_job
    pc,         \* job id -> position of the process_document task
    exc,        \* job id -> message of the exception being handled
    resultado,  \* job id -> token count of the llms text the converter returned
    calls,      \* job id -> store writes received for the key, in order
    expired,    \* job id -> "no", or whether the TTL evicted the key during the conversion
    reader,     \* the polling client: position, request and last answer
    tasks,      \* job id -> process_document tasks created for the id
    runs,       \* job id -> conversions (converter.run) started for the id
    an,         \* the tool call (TokenAnalyzer, count_tokens, processar_em_lote) and what it gave back
    req,        \* the POST /convert request in convert_document: its parts and its answer
    rl          \* rate_limiter: the bucket counters of the store, the clock and the requests

vars == <<redis, ttl, files, params, cpc, pc, exc, resultado, calls, expired, reader, tasks, runs, an, req, rl>>

Exists(j) == DOMAIN redis[j] # {}

\* ------------------------------------------------- store calls (redis_client)
\* a write the store has received
Call(op, m, s) == [op |-> op, mapping |-> m, seconds |-> s]

\* redis_client.hset(job_key, mapping=m): the key's TTL is untouched, a key
\* created by HSET has no expiration
hset(j, m) ==
    /\ redis' = [redis EXCEPT ![j] = HSet(@, m)]
    /\ calls' = [calls EXCEPT ![j] = Append(@, Call("hset", m, 0))]
    /\ UNCHANGED ttl

\* redis_client.expire(job_key, s): no effect on a key that does not exist
expire(j, s) ==
    /\ ttl' = [ttl EXCEPT ![j] = IF Exists(j) THEN s ELSE @]
    /\ calls' = [calls EXCEPT ![j] = Append(@, Call("expire", EmptyHash, s))]
    /\ UNCHANGED redis

\* ------------------------------------------------------------------- Init
NoAnswer == [status |-> None, progress |-> -1, result |-> None, error |-> None]
Idle == [pc |-> "idle", op |-> "none", job |-> 0, returns |-> "nothing", ret |-> NoAnswer, http |-> 0]

\* no TokenAnalyzer call
NoCall == [op |-> "none"]

\* no POST /convert request, and no request at the rate limiter
NoRequest == [stage |-> "none"]
NoLimiter == [stage |-> "none"]

\* the service before any request, for the job ids `ids`
InitJobs(ids) ==
    /\ redis = [j \in ids |-> EmptyHash]
    /\ ttl = [j \in ids |-> NoTTL]
    /\ files = [j \in ids |-> FALSE]
    /\ params = [j \in ids |-> NoParams]
    /\ cpc = [j \in ids |-> "unborn"]
    /\ pc = [j \in ids |-> "none"]
    /\ exc = [j \in ids |-> None]
    /\ resultado = [j \in ids |-> 0]
    /\ calls = [j \in ids |-> <<>>]
    /\ expired = [j \in ids |-> "no"]
    /\ reader = Idle
    /\ tasks = [j \in ids |-> 0]
    /\ runs = [j \in ids |-> 0]

Init ==
    /\ InitJobs(AllIds)
    /\ an = NoCall
    /\ req = NoRequest
    /\ rl = NoLimiter

\* ------------------------------------------------- create_conversion_job
\* (variant: the initial record lacks its status)
job_meta_NoStatus ==
    ("progress" :> "0") @@ ("status_message" :> "Job criado")
      @@ ("created_at" :> "time") @@ ("filename" :> "name") @@ ("params" :> "json")

\* job_meta of create_conversion_job (created_at, filename and params are
\* opaque passthrough values)
job_meta ==
    ("status" :> "created") @@ ("progress" :> "0") @@ ("status_message" :> "Job criado")
      @@ ("created_at" :> "time") @@ ("filename" :> "name") @@ ("params" :> "json")

\* uuid4 and the first store write; a raise leaves the caller with the error
CCJ_HSet(j, p) ==
    /\ cpc[j] = "unborn"
    /\ \A i \in JobIds : i < j => cpc[i] # "unborn"
    /\ params' = [params EXCEPT ![j] = p]
    /\ \/ /\ hset(j, job_meta)
          /\ cpc' = [cpc EXCEPT ![j] = "c_expire"]
       \/ /\ cpc' = [cpc EXCEPT ![j] = "raised"]
          /\ UNCHANGED <<redis, ttl, calls>>
    /\ UNCHANGED <<files, pc, exc, resultado, expired, reader, tasks, runs, an, req, rl>>

\* (variant: the initial expiration is never set)
CCJ_Expire_Skipped(j) ==
    /\ cpc[j] = "c_expire"
    /\ cpc' = [cpc EXCEPT ![j] = "c_save"]
    /\ UNCHANGED <<redis, ttl, calls, files, params, pc, exc, resultado, expired, reader, tasks, runs, an, req, rl>>

\* record_job_created(); await redis_client.expire(job_key, JOB_TTL_PROCESSING)
CCJ_Expire(j) ==
    /\ cpc[j] = "c_expire"
    /\ \/ /\ expire(j, JOB_TTL_PROCESSING)
          /\ cpc' = [cpc EXCEPT ![j] = "c_save"]
       \/ /\ cpc' = [cpc EXCEPT ![j] = "raised"]
          /\ UNCHANGED <<redis, ttl, calls>>
    /\ UNCHANGED <<files, params, pc, exc, resultado, expired, reader, tasks, runs, an, req, rl>>

\* (variant: the task is created before the upload is saved and again after it)
CCJ_SaveAndSchedule_Twice(j) ==
    /\ cpc[j] = "c_save"
    /\ \/ /\ files' = [files EXCEPT ![j] = TRUE]
          /\ pc' = [pc EXCEPT ![j] = "scheduled"]
          /\ tasks' = [tasks EXCEPT ![j] = @ + 2]
          /\ cpc' = [cpc EXCEPT ![j] = "returned"]
       \/ /\ cpc' = [cpc EXCEPT ![j] = "raised"]
          /\ UNCHANGED <<files, pc, tasks>>
    /\ UNCHANGED <<redis, ttl, calls, params, exc, resultado, expired, reader, runs, an, req, rl>>

\* await save_upload_file(...); asyncio.create_task(process_document(...));
\* return job_id -- nothing is awaited between the task creation and the return
CCJ_SaveAndSchedule(j) ==
    /\ cpc[j] = "c_save"
    /\ \/ /\ files' = [files EXCEPT ![j] = TRUE]
          /\ pc' = [pc EXCEPT ![j] = "scheduled"]
          /\ tasks' = [tasks EXCEPT ![j] = @ + 1]
          /\ cpc' = [cpc EXCEPT ![j] = "returned"]
       \/ /\ cpc' = [cpc EXCEPT ![j] = "raised"]
          /\ UNCHANGED <<files, pc, tasks>>
    /\ UNCHANGED <<redis, ttl, calls, params, exc, resultado, expired, reader, runs, an, req, rl>>

\* ------------------------------------------------------- process_document
\* the except clause is entered with the exception's message
Raise(j, e) ==
    /\ pc' = [pc EXCEPT ![j] = "handler"]
    /\ exc' = [exc EXCEPT ![j] = e]

Goto(j, l) ==
    /\ pc' = [pc EXCEPT ![j] = l]
    /\ UNCHANGED exc

\* a store write of the routine's try block: done, or raised without effect
TryHSet(j, m, l) ==
    \/ /\ hset(j, m)
       /\ Goto(j, l)
    \/ /\ Raise(j, "redis")
       /\ UNCHANGED <<redis, ttl, calls>>

\* (variant: the analysis runs for every profile)
RunsAnalysis_AnyProfile(j) == resultado[j] # 0

\* `if token_count and params.profile.value == "llms-full"`
RunsAnalysis(j) == resultado[j] # 0 /\ params[j].profile = "llms-full"

\* the step that follows the analysis block: `if params.to_langchain`
AfterAnalysis(j) == IF params[j].to_langchain THEN "p_lc_msg" ELSE "p_final"

\* hset {"status": "processing", "progress": "0.1"}
PD_Start(j) ==
    /\ pc[j] = "scheduled"
    /\ TryHSet(j, ("status" :> "processing") @@ ("progress" :> "0.1"), "p_hset02")
    /\ UNCHANGED <<files, params, cpc, resultado, expired, reader, tasks, runs, an, req, rl>>

\* hset {"progress": "0.2", "status_message": ...}
PD_HSet02(j) ==
    /\ pc[j] = "p_hset02"
    /\ TryHSet(j, ("progress" :> "0.2") @@ ("status_message" :> "Inicializando processamento"), "p_hsetmsg")
    /\ UNCHANGED <<files, params, cpc, resultado, expired, reader, tasks, runs, an, req, rl>>

\* hset {"status_message": "Convertendo documento"}; asyncio.to_thread(converter.run, ...)
PD_HSetMsg(j) ==
    /\ pc[j] = "p_hsetmsg"
    /\ TryHSet(j, ("status_message" :> "Convertendo documento"), "converting")
    /\ runs' = [runs EXCEPT ![j] = IF pc'[j] = "converting" THEN @ + 1 ELSE @]
    /\ UNCHANGED <<files, params, cpc, resultado, expired, reader, tasks, an, req, rl>>

\* converter.run returns (its "formats" always hold the llms text, whose
\* token count is drawn here) or raises
PD_ConvertEnd(j) ==
    /\ pc[j] = "converting"
    /\ \/ /\ \E n \in {0, TokPos} : resultado' = [resultado EXCEPT ![j] = n]
          /\ Goto(j, "p_hset07")
       \/ /\ Raise(j, "converter")
          /\ UNCHANGED resultado
    /\ UNCHANGED <<redis, ttl, calls, files, params, cpc, expired, reader, tasks, runs, an, req, rl>>

\* hset {"progress": "0.7", ...}; token_count = count_tokens(formats_dict["llms"], ...)
PD_HSet07(j) ==
    /\ pc[j] = "p_hset07"
    /\ \/ TryHSet(j, ("progress" :> "0.7") @@ ("status_message" :> "Analisando documento"), "p_hset08")
       \/ /\ hset(j, ("progress" :> "0.7") @@ ("status_message" :> "Analisando documento"))
          /\ Raise(j, "tokens")
    /\ UNCHANGED <<files, params, cpc, resultado, expired, reader, tasks, runs, an, req, rl>>

\* hset {"progress": "0.8"}; the analysis block up to analyze_sections
PD_HSet08(j) ==
    /\ pc[j] = "p_hset08"
    /\ \/ TryHSet(j, ("progress" :> "0.8"), IF RunsAnalysis(j) THEN "p_hset09" ELSE AfterAnalysis(j))
       \/ /\ RunsAnalysis(j)
          /\ hset(j, ("progress" :> "0.8"))
          /\ Raise(j, "analysis")
    /\ UNCHANGED <<files, params, cpc, resultado, expired, reader, tasks, runs, an, req, rl>>

\* hset {"progress": "0.9"}
PD_HSet09(j) ==
    /\ pc[j] = "p_hset09"
    /\ TryHSet(j, ("progress" :> "0.9"), AfterAnalysis(j))
    /\ UNCHANGED <<files, params, cpc, resultado, expired, reader, tasks, runs, an, req, rl>>

\* hset {"status_message": "Exportando ..."}; exportar_para_langchain is a
\* stub returning the empty list, so nothing else is written
PD_LangchainMsg(j) ==
    /\ pc[j] = "p_lc_msg"
    /\ TryHSet(j, ("status_message" :> "Exportando para framework LangChain"), "p_hset095")
    /\ UNCHANGED <<files, params, cpc, resultado, expired, reader, tasks, runs, an, req, rl>>

\* hset {"progress": "0.95"}
PD_HSet095(j) ==
    /\ pc[j] = "p_hset095"
    /\ TryHSet(j, ("progress" :> "0.95"), "p_final")
    /\ UNCHANGED <<files, params, cpc, resultado, expired, reader, tasks, runs, an, req, rl>>

\* result_data: the converter's formats (the json export is a dict, the others
\* are text), the token count, the analysis and the elapsed time
FormatsOf(fmts) == [f \in fmts \cup {"llms"} |-> IF f = "json" THEN "dict" ELSE "str"]

result_data(j) ==
    [formats |-> FormatsOf(params[j].output_formats),
     token_count |-> resultado[j],
     analysis |-> IF RunsAnalysis(j) THEN "dict" ELSE "null",
     processing_time |-> "elapsed"]

ResultData ==
    [formats : {FormatsOf(p.output_formats) : p \in ConversionRequest},
     token_count : {0, TokPos},
     analysis : {"dict", "null"},
     processing_time : {"elapsed"}]

\* json.dumps / json.loads of a result
json_dumps(d) == ToString(d)
json_loads(s) == CHOOSE d \in ResultData : ToString(d) = s

\* hset {"status": "completed", "progress": "1.0", ..., "result": json.dumps(result_data)}
\* (variant: the final write leaves progress below 1.0)
CompletedMapping_KeepsProgress(j) ==
    ("status" :> "completed") @@ ("progress" :> "0.9")
      @@ ("status_message" :> "Processamento concluido") @@ ("result" :> json_dumps(result_data(j)))

CompletedMapping(j) ==
    ("status" :> "completed") @@ ("progress" :> "1.0")
      @@ ("status_message" :> "Processamento concluido") @@ ("result" :> json_dumps(result_data(j)))

PD_Final(j) ==
    /\ pc[j] = "p_final"
    /\ TryHSet(j, CompletedMapping(j), "p_expire")
    /\ UNCHANGED <<files, params, cpc, resultado, expired, reader, tasks, runs, an, req, rl>>

\* expire(job_key, JOB_TTL_COMPLETED); record_job_completed; os.remove(file_path)
PD_Expire(j) ==
    /\ pc[j] = "p_expire"
    /\ \/ /\ expire(j, JOB_TTL_COMPLETED)
          /\ files' = [files EXCEPT ![j] = FALSE]
          /\ Goto(j, "done")
       \/ /\ Raise(j, "redis")
          /\ UNCHANGED <<redis, ttl, calls, files>>
    /\ UNCHANGED <<params, cpc, resultado, expired, reader, tasks, runs, an, req, rl>>

\* except Exception as e: hset {"status": "failed", "error": str(e)}; a raise
\* inside the except clause leaves process_document
FailedMapping(j) == ("status" :> "failed") @@ ("error" :> exc[j])

PD_Handler(j) ==
    /\ pc[j] = "handler"
    /\ \/ /\ hset(j, FailedMapping(j))
          /\ pc' = [pc EXCEPT ![j] = "h_expire"]
       \/ /\ pc' = [pc EXCEPT ![j] = "escaped"]
          /\ UNCHANGED <<redis, ttl, calls>>
    /\ UNCHANGED <<files, params, cpc, exc, resultado, expired, reader, tasks, runs, an, req, rl>>

\* record_job_failed(); expire(job_key, JOB_TTL_FAILED); remove the file if it exists
PD_HandlerExpire(j) ==
    /\ pc[j] = "h_expire"
    /\ \/ /\ expire(j, JOB_TTL_FAILED)
          /\ files' = [files EXCEPT ![j] = FALSE]
          /\ pc' = [pc EXCEPT ![j] = "done"]
       \/ /\ pc' = [pc EXCEPT ![j] = "escaped"]
          /\ UNCHANGED <<redis, ttl, calls, files>>
    /\ UNCHANGED <<params, cpc, exc, resultado, expired, reader, tasks, runs, an, req, rl>>

\* the conversion is running in its worker thread
Converting(j) == pc[j] = "converting"

\* ------------------------------------------------------------ the store's clock
\* TickLen seconds pass: every key with an expiration loses them and is
\* evicted when none are left
Tick ==
    /\ \E j \in AllIds : ttl[j] # NoTTL
    /\ redis' = [j \in AllIds |-> IF ttl[j] # NoTTL /\ ttl[j] <= TickLen THEN EmptyHash ELSE redis[j]]
    /\ ttl' = [j \in AllIds |-> IF ttl[j] = NoTTL \/ ttl[j] <= TickLen THEN NoTTL ELSE ttl[j] - TickLen]
    /\ expired' = [j \in AllIds |-> IF ttl[j] # NoTTL /\ ttl[j] <= TickLen /\ expired[j] # "converting"
                                     THEN (IF Converting(j) THEN "converting" ELSE "other")
                                     ELSE expired[j]]
    /\ UNCHANGED <<files, params, cpc, pc, exc, resultado, calls, reader, tasks, runs, an, req, rl>>

\* ------------------------------------------- get_job_status / get_job_details
\* truthiness of job.get(f)
Truthy(h, f) == f \in DOMAIN h /\ h[f] # ""

\* ConversionResult(**result_data): formats must map names to text
ConversionResultValid(d) == \A f \in DOMAIN d.formats : d.formats[f] = "str"

\* the tuple get_job_status builds from the hash it read
StatusTuple(job) ==
    [status |-> Get(job, "status"),
     progress |-> IF Truthy(job, "progress") THEN Float(job["progress"]) ELSE -1,
     result |-> IF Truthy(job, "result") /\ ConversionResultValid(json_loads(job["result"]))
                THEN job["result"] ELSE None,
     error |-> Get(job, "error")]

NotFoundTuple == [status |-> "not_found", progress |-> -1, result |-> None, error |-> "Job nao encontrado"]

\* get_conversion_status: 404 on "not_found"; StatusResponse requires a status string
StatusRoute(t) == IF t.status = "not_found" THEN 404 ELSE IF t.status = None THEN 500 ELSE 200

\* (variant: the existence check is missing)
GJS_Exists_NoCheck(i) ==
    /\ reader.pc = "idle"
    /\ reader' = [pc |-> "hgetall", op |-> "status", job |-> i, returns |-> "nothing", ret |-> NoAnswer, http |-> 0]
    /\ UNCHANGED <<redis, ttl, files, params, cpc, pc, exc, resultado, calls, expired, tasks, runs, an, req, rl>>

\* exists = await redis_client.exists(job_key); if not exists: return "not_found", ...
GJS_Exists(i) ==
    /\ reader.pc = "idle"
    /\ reader' = IF Exists(i)
                 THEN [pc |-> "hgetall", op |-> "status", job |-> i, returns |-> "nothing", ret |-> NoAnswer, http |-> 0]
                 ELSE [pc |-> "idle", op |-> "status", job |-> i, returns |-> "tuple",
                       ret |-> NotFoundTuple, http |-> StatusRoute(NotFoundTuple)]
    /\ UNCHANGED <<redis, ttl, files, params, cpc, pc, exc, resultado, calls, expired, tasks, runs, an, req, rl>>

\* job = await redis_client.hgetall(job_key); return status, progress, result, error
GJS_HGetAll ==
    /\ reader.pc = "hgetall"
    /\ reader.op = "status"
    /\ reader' = [reader EXCEPT !.pc = "idle", !.returns = "tuple",
                                !.ret = StatusTuple(redis[reader.job]),
                                !.http = StatusRoute(StatusTuple(redis[reader.job]))]
    /\ UNCHANGED <<redis, ttl, files, params, cpc, pc, exc, resultado, calls, expired, tasks, runs, an, req, rl>>

\* get_job_details: None when the key does not exist, else the hash read
GJD_Exists(i) ==
    /\ reader.pc = "idle"
    /\ reader' = IF Exists(i)
                 THEN [pc |-> "hgetall", op |-> "details", job |-> i, returns |-> "nothing", ret |-> NoAnswer, http |-> 0]
                 ELSE [pc |-> "idle", op |-> "details", job |-> i, returns |-> "None", ret |-> NoAnswer, http |-> 404]
    /\ UNCHANGED <<redis, ttl, files, params, cpc, pc, exc, resultado, calls, expired, tasks, runs, an, req, rl>>

GJD_HGetAll ==
    /\ reader.pc = "hgetall"
    /\ reader.op = "details"
    /\ reader' = [reader EXCEPT !.pc = "idle", !.returns = "dict",
                                !.ret = [StatusTuple(redis[reader.job]) EXCEPT
                                           !.result = IF Truthy(redis[reader.job], "result")
                                                      THEN redis[reader.job]["result"] ELSE None],
                                !.http = 200]
    /\ UNCHANGED <<redis, ttl, files, params, cpc, pc, exc, resultado, calls, expired, tasks, runs, an, req, rl>>

\* ------------------------------------------------------------- specification
Next ==
    \/ \E j \in JobIds, p \in ConversionRequest : CCJ_HSet(j, p)
    \/ \E j \in JobIds : CCJ_Expire(j)
    \/ \E j \in JobIds : CCJ_SaveAndSchedule(j)
    \/ \E j \in JobIds : PD_Start(j)
    \/ \E j \in JobIds : PD_HSet02(j)
    \/ \E j \in JobIds : PD_HSetMsg(j)
    \/ \E j \in JobIds : PD_ConvertEnd(j)
    \/ \E j \in JobIds : PD_HSet07(j)
    \/ \E j \in JobIds : PD_HSet08(j)
    \/ \E j \in JobIds : PD_HSet09(j)
    \/ \E j \in JobIds : PD_LangchainMsg(j)
    \/ \E j \in JobIds : PD_HSet095(j)
    \/ \E j \in JobIds : PD_Final(j)
    \/ \E j \in JobIds : PD_Expire(j)
    \/ \E j \in JobIds : PD_Handler(j)
    \/ \E j \in JobIds : PD_HandlerExpire(j)
    \/ Tick
    \/ \E i \in AllIds : GJS_Exists(i)
    \/ GJS_HGetAll
    \/ \E i \in AllIds : GJD_Exists(i)
    \/ GJD_HGetAll

Spec == Init /\ [][Next]_vars

\* ------------------------------------ concurrent create_conversion_job calls
\* MaxCalls uploads are posted concurrently: every call runs
\* create_conversion_job and the task it creates runs process_document,
\* interleaved at the await points (no polling client, no eviction)
CallIds == 1..MaxCalls

InitCreate ==
    /\ InitJobs(CallIds)
    /\ an = NoCall
    /\ req = NoRequest
    /\ rl = NoLimiter

NextCreate ==
    \/ \E j \in CallIds, p \in ConversionRequest : CCJ_HSet(j, p)
    \/ \E j \in CallIds : CCJ_Expire(j)
    \/ \E j \in CallIds : CCJ_SaveAndSchedule(j)
    \/ \E j \in CallIds : PD_Start(j)
    \/ \E j \in CallIds : PD_HSet02(j)
    \/ \E j \in CallIds : PD_HSetMsg(j)
    \/ \E j \in CallIds : PD_ConvertEnd(j)
    \/ \E j \in CallIds : PD_HSet07(j)
    \/ \E j \in CallIds : PD_HSet08(j)
    \/ \E j \in CallIds : PD_HSet09(j)
    \/ \E j \in CallIds : PD_LangchainMsg(j)
    \/ \E j \in CallIds : PD_HSet095(j)
    \/ \E j \in CallIds : PD_Final(j)
    \/ \E j \in CallIds : PD_Expire(j)
    \/ \E j \in CallIds : PD_Handler(j)
    \/ \E j \in CallIds : PD_HandlerExpire(j)

SpecCreate == InitCreate /\ [][NextCreate]_vars

\* ------------------------------------------------ TokenAnalyzer (tools)
\* A dict is the sequence of its items <<key, value>> in insertion order.
\* Floats are kept as exact ratios: the comparisons `t > model_limit * 0.25`,
\* `total > model_limit * 0.8` and `raw > total * 0.2` of integers are
\* written without the division.

\* self.model_limits, in the order of the dict literal
model_limits == <<
    <<"gpt-3.5-turbo", 16385>>,
    <<"gpt-3.5-turbo-16k", 16385>>,
    <<"gpt-4", 8192>>,
    <<"gpt-4-32k", 32768>>,
    <<"gpt-4o", 128000>>,
    <<"gpt-4o-mini", 128000>>,
    <<"gpt-4.1", 1047576>>,
    <<"gpt-4.1-mini", 1047576>>,
    <<"gpt-4.1-nano-2025-04-14", 1047576>>,
    <<"gpt-4.1-nano", 1047576>>,
    <<"gpt-4.5", 1047576>>,
    <<"claude-3-opus", 200000>>,
    <<"claude-3-sonnet", 200000>>,
    <<"claude-3.5-sonnet", 200000>>,
    <<"claude-3-haiku", 200000>>,
    <<"anthropic.claude-3-haiku", 200000>>,
    <<"gemini-pro", 32000>>,
    <<"gemini-flash", 32000>>,
    <<"gemini-1.5-pro", 1000000>>,
    <<"gemini-1.5-flash", 1000000>>,
    <<"llama-3-70b", 8192>>,
    <<"llama-3-8b", 8192>>,
    <<"mistral-large", 32768>>,
    <<"mistral-medium", 32768>> >>

\* self.model_limits.get(self.model_name, 8000)
ModelLimit(model_name) ==
    IF \E i \in 1..Len(model_limits) : model_limits[i][1] = model_name
    THEN model_limits[CHOOSE i \in 1..Len(model_limits) : model_limits[i][1] = model_name][2]
    ELSE DefaultLimit

\* the outcome of a call: the exception that reached the caller, or the value
Raised(e) == [raised |-> e, value |-> None]
Returned(v) == [raised |-> None, value |-> v]

\* sum(sections_dict.values())
RECURSIVE Sum(_)
Sum(items) == IF items = <<>> THEN 0 ELSE Head(items)[2] + Sum(Tail(items))

\* sorted(..., key=lambda x: x[1]) and list.sort(key=lambda x: x[1]): stable,
\* ascending for sign = 1; reverse=True (sign = -1) is descending and keeps
\* the items of equal key in their original order
RECURSIVE Insert(_, _, _)
Insert(x, s, sign) ==
    IF s = <<>> THEN <<x>>
    ELSE IF sign * x[2] < sign * Head(s)[2] THEN <<x>> \o s
    ELSE <<Head(s)>> \o Insert(x, Tail(s), sign)

RECURSIVE SortedBy(_, _)
SortedBy(s, sign) ==
    IF s = <<>> THEN <<>>
    ELSE Insert(s[Len(s)], SortedBy(SubSeq(s, 1, Len(s) - 1), sign), sign)

\* the keys of a list of items
Keys(items) == [i \in 1..Len(items) |-> items[i][1]]

\* percentages = {k: (v / total_tokens) * 100 ...}: the ratio v * 100 / total
Percentages(sections_dict, total_tokens) ==
    [i \in 1..Len(sections_dict) |->
        [key |-> sections_dict[i][1], num |-> sections_dict[i][2] * 100, den |-> total_tokens]]

\* (variant: the sections are filtered in the order of the input)
ExpensiveSections_Unsorted(sections_dict, model_limit) ==
    Keys(SelectSeq(sections_dict, LAMBDA x : 4 * x[2] > model_limit))

\* expensive_sections = [s for s, t in sorted_sections if t > model_limit * 0.25]
ExpensiveSections(sections_dict, model_limit) ==
    Keys(SelectSeq(SortedBy(sections_dict, -1), LAMBDA x : 4 * x[2] > model_limit))

\* (variant: suitable_models is left in the order of the table)
SuitableModels_Unsorted(total_tokens) ==
    SelectSeq(model_limits, LAMBDA x : x[2] >= total_tokens)

\* suitable_models, after suitable_models.sort(key=lambda x: x[1])
SuitableModels(total_tokens) ==
    SortedBy(SelectSeq(model_limits, LAMBDA x : x[2] >= total_tokens), 1)

\* s.lower().endswith('content'), for the section keys of SectionKeys
EndsWithContent(s) == s = "# Content"

\* one recommendation: which sentence, and the values formatted into it
Rec(kind, model, tokens, sections) ==
    [kind |-> kind, model |-> model, tokens |-> tokens, sections |-> sections]

\* (variant: the warning starts at 80% of the limit, not above it)
NearLimit_AtOrAbove(total_tokens, model_limit) == 5 * total_tokens >= 4 * model_limit

\* `if total_tokens > model_limit * 0.8`
NearLimit(total_tokens, model_limit) == 5 * total_tokens > 4 * model_limit

\* the recommendations list of analyze_sections
Recommendations(sections_dict, model_name) ==
    LET total_tokens == Sum(sections_dict)
        model_limit == ModelLimit(model_name)
        suitable_models == SuitableModels(total_tokens)
        content == SelectSeq(sections_dict, LAMBDA x : EndsWithContent(x[1]))
        expensive_sections == ExpensiveSections(sections_dict, model_limit)
        raw == SelectSeq(sections_dict, LAMBDA x : x[1] = "# Raw")
    IN  IF total_tokens > model_limit
        THEN <<Rec("excede o limite do modelo", model_name, model_limit, <<>>)>>
             \o (IF suitable_models # <<>>
                 THEN <<Rec("Considere usar", suitable_models[1][1], suitable_models[1][2], <<>>)>>
                 ELSE <<Rec("excede o limite de todos os modelos conhecidos", "", 0, <<>>)>>)
             \o (IF content # <<>> /\ content[1][2] < model_limit
                 THEN <<Rec("Use o perfil llms-min", "", content[1][2], <<>>)>>
                 ELSE <<>>)
             \o (IF expensive_sections # <<>>
                 THEN <<Rec("secoes que mais consomem tokens", "", 0, expensive_sections),
                        Rec("Considere dividir o documento", "", 0, <<>>)>>
                 ELSE <<>>)
        ELSE <<Rec("dentro do limite", model_name, model_limit, <<>>)>>
             \o (IF NearLimit(total_tokens, model_limit)
                 THEN <<Rec("proximo do limite", "", 0, <<>>)>>
                 ELSE <<>>)
             \o (IF raw # <<>> /\ 5 * raw[1][2] > total_tokens
                 THEN <<Rec("A secao Raw consome muitos tokens", "", 0, <<>>)>>
                 ELSE <<>>)

\* (variant: the empty mapping is not rejected)
analyze_sections_NoGuard(sections_dict, model_name) ==
    IF sections_dict # <<>> /\ Sum(sections_dict) = 0 THEN Raised("ZeroDivisionError")
    ELSE Returned([total_tokens |-> Sum(sections_dict),
                   model_limit |-> ModelLimit(model_name),
                   exceeds_limit |-> Sum(sections_dict) > ModelLimit(model_name),
                   percentages |-> Percentages(sections_dict, Sum(sections_dict)),
                   expensive_sections |-> ExpensiveSections(sections_dict, ModelLimit(model_name)),
                   recommendations |-> Recommendations(sections_dict, model_name)])

\* TokenAnalyzer(model_name).analyze_sections(sections_dict)
analyze_sections(sections_dict, model_name) ==
    IF sections_dict = <<>> THEN Raised("ValueError")
    ELSE IF Sum(sections_dict) = 0 THEN Raised("ZeroDivisionError")
    ELSE Returned([total_tokens |-> Sum(sections_dict),
                   model_limit |-> ModelLimit(model_name),
                   exceeds_limit |-> Sum(sections_dict) > ModelLimit(model_name),
                   percentages |-> Percentages(sections_dict, Sum(sections_dict)),
                   expensive_sections |-> ExpensiveSections(sections_dict, ModelLimit(model_name)),
                   recommendations |-> Recommendations(sections_dict, model_name)])

\* the arguments the calls are made with
ModelNames == {"gpt-4", "gpt-4.1", "custom-model"}
SectionKeys == {"# Title", "# Content", "# Raw", "# Tables"}
TokenCounts == {0, 1, 2048, 2049, 6400, 6553, 8192, 1047576}
SectionKeyLists ==
    {ks \in UNION {[1..n -> SectionKeys] : n \in 0..MaxSections} :
        \A i, k \in 1..Len(ks) : ks[i] = ks[k] => i = k}
\* the dict with the keys ks, in this order, and the counts vs
SectionDict(ks, vs) == [i \in 1..Len(ks) |-> <<ks[i], vs[i]>>]

\* the variables of the job service
jobvars == <<redis, ttl, files, params, cpc, pc, exc, resultado, calls, expired, reader, tasks, runs, req, rl>>

\* ------------------------------------- TokenAnalyzer._extract_content_sample
\* A str is the sequence of its characters; a value of the section map is a
\* Python object that is a str or None.
Min(a, b) == IF a < b THEN a ELSE b

Str(chars) == [type |-> "str", chars |-> chars]
NoneObject == [type |-> "NoneType", chars |-> <<>>]

\* s[:n] for n >= 0
Take(s, n) == SubSeq(s, 1, Min(n, Len(s)))

\* s.startswith(prefix)
StartsWith(s, prefix) == Len(s) >= Len(prefix) /\ SubSeq(s, 1, Len(prefix)) = prefix

\* '\n'.join(parts)
RECURSIVE Join(_)
Join(parts) ==
    IF parts = <<>> THEN <<>>
    ELSE IF Len(parts) = 1 THEN parts[1]
    ELSE parts[1] \o <<"\n">> \o Join(Tail(parts))

\* s.split('\n\n')
RECURSIVE Split(_)
Split(s) ==
    LET cuts == {i \in 1..(Len(s) - 1) : s[i] = "\n" /\ s[i + 1] = "\n"}
        first == CHOOSE i \in cuts : \A k \in cuts : i <= k
    IN  IF cuts = {} THEN <<s>>
        ELSE <<SubSeq(s, 1, first - 1)>> \o Split(SubSeq(s, first + 2, Len(s)))

IsHash(c) == c = "#"
IsSpace(c) == c \in {" ", "\n", "\t", "\r"}
NotNewline(c) == c # "\n"

\* the character classes of the pattern: # , \s and .
InClass(c, class) ==
    CASE class = "#" -> IsHash(c)
      [] class = "\\s" -> IsSpace(c)
      [] class = "." -> NotNewline(c)

\* the last index of the longest run of characters of a class from p on
\* (p - 1 when the run is empty)
RunEnd(s, p, class) ==
    CHOOSE e \in (p - 1)..Len(s) :
        /\ \A i \in p..e : InClass(s[i], class)
        /\ e = Len(s) \/ ~InClass(s[e + 1], class)

\* where a match of ^#+\s+.*$ that starts at p ends
MatchEnd(s, p) == RunEnd(s, RunEnd(s, RunEnd(s, p, "#") + 1, "\\s") + 1, ".")

\* re.findall(r'^#+\s+.*$', s, re.MULTILINE), searching from position `from`
RECURSIVE FindTitles(_, _)
FindTitles(s, from) ==
    LET starts == {p \in from..Len(s) :
                     /\ p = 1 \/ s[p - 1] = "\n"
                     /\ s[p] = "#"
                     /\ RunEnd(s, p, "#") < Len(s)
                     /\ IsSpace(s[RunEnd(s, p, "#") + 1])}
        p == CHOOSE q \in starts : \A k \in starts : q <= k
    IN  IF starts = {} THEN <<>>
        ELSE <<SubSeq(s, p, MatchEnd(s, p))>> \o FindTitles(s, MatchEnd(s, p) + 1)

KeyTitle == <<"#", " ", "T", "i", "t", "l", "e">>
KeyDate == <<"#", " ", "D", "a", "t", "e">>
KeySource == <<"#", " ", "S", "o", "u", "r", "c", "e">>
KeyContent == <<"#", " ", "C", "o", "n", "t", "e", "n", "t">>
KeySummary == <<"#", " ", "S", "u", "m", "m", "a", "r", "y">>
KeyTables == <<"#", " ", "T", "a", "b", "l", "e", "s">>

\* section.startswith('# Title') or ... '# Date' ... '# Source'
IsMetadata(section) ==
    StartsWith(section, KeyTitle) \/ StartsWith(section, KeyDate) \/ StartsWith(section, KeySource)

\* `key in section_map` and section_map[key]
HasKey(section_map, key) == \E i \in 1..Len(section_map) : section_map[i][1] = key
Value(section_map, key) == section_map[CHOOSE i \in 1..Len(section_map) : section_map[i][1] = key][2]

\* `'# X' in section_map and section_map['# X']`: None and '' are falsy
HasText(section_map, key) == HasKey(section_map, key) /\ Value(section_map, key).chars # <<>>

\* the metadata loop: the key and the first 1000 characters of its text
RECURSIVE Metadata(_)
Metadata(items) ==
    IF items = <<>> THEN <<>>
    ELSE (IF IsMetadata(Head(items)[1])
          THEN <<Head(items)[1], Take(Head(items)[2].chars, MetadataChars)>>
          ELSE <<>>) \o Metadata(Tail(items))

\* the paragraph loop: paragraphs are added while
\* len('\n'.join(sample)) + len(para) < max_size, and the loop breaks at the
\* first that does not fit
RECURSIVE AddParagraphs(_, _, _)
AddParagraphs(sample, paragraphs, max_size) ==
    IF paragraphs = <<>> THEN sample
    ELSE IF Len(Join(sample)) + Len(Head(paragraphs)) < max_size
         THEN AddParagraphs(Append(sample, Head(paragraphs)), Tail(paragraphs), max_size)
         ELSE sample

\* the heading loop: up to 100 headings of '# Content' and '# Tables'
RECURSIVE Titles(_)
Titles(items) ==
    IF items = <<>> THEN <<>>
    ELSE (IF Head(items)[1] \in {KeyContent, KeyTables}
          THEN Take(FindTitles(Head(items)[2].chars, 1), MaxTitles)
          ELSE <<>>) \o Titles(Tail(items))

\* the sample before the heading loop
SampleBeforeTitles(section_map, max_size) ==
    LET meta == Metadata(section_map)
        paras == IF HasText(section_map, KeyContent)
                 THEN AddParagraphs(meta, Take(Split(Value(section_map, KeyContent).chars), MaxParagraphs), max_size)
                 ELSE meta
    IN  IF HasText(section_map, KeySummary)
        THEN Append(paras, Value(section_map, KeySummary).chars)
        ELSE paras

\* `if total_len < max_size / 2`
RunsTitles(section_map, max_size) == 2 * Len(Join(SampleBeforeTitles(section_map, max_size))) < max_size

\* the try block raises TypeError when it slices None or searches None
TryRaises(section_map, max_size) ==
    \/ \E i \in 1..Len(section_map) :
          IsMetadata(section_map[i][1]) /\ section_map[i][2].type # "str"
    \/ /\ RunsTitles(section_map, max_size)
       /\ \E i \in 1..Len(section_map) :
             section_map[i][1] \in {KeyContent, KeyTables} /\ section_map[i][2].type # "str"

\* (variant: the result is returned without the final cut)
extract_content_sample_NoCut(content, section_map, max_size) ==
    IF content = <<>> THEN Raised("ValueError")
    ELSE IF TryRaises(section_map, max_size)
    THEN Returned(Take(content, Min(max_size, Len(content))))
    ELSE Returned(Join(SampleBeforeTitles(section_map, max_size)
                       \o (IF RunsTitles(section_map, max_size) THEN Titles(section_map) ELSE <<>>)))

\* TokenAnalyzer._extract_content_sample(content, section_map, max_size)
extract_content_sample(content, section_map, max_size) ==
    IF content = <<>> THEN Raised("ValueError")
    ELSE IF TryRaises(section_map, max_size)
    THEN Returned(Take(content, Min(max_size, Len(content))))
    ELSE Returned(Take(Join(SampleBeforeTitles(section_map, max_size)
                            \o (IF RunsTitles(section_map, max_size) THEN Titles(section_map) ELSE <<>>)),
                       max_size))

\* the arguments the calls are made with
Contents == {<<>>, <<"a", "b", "c">>, <<"l", "e", "i", " ", "a", "r", "t", "i", "g", "o", " ", "1", "2">>}
SectionTexts == {Str(<<>>), Str(<<"a", "b">>), Str(<<"a", "\n", "\n", "b">>), Str(<<"#", "#", " ", "h", "\n", "b">>), Str(<<"#", "\n", "c">>), NoneObject}
SectionMapKeys == {KeyTitle, KeyContent, KeySummary, KeyTables}
SectionMaps ==
    {m \in UNION {[1..n -> SectionMapKeys \X SectionTexts] : n \in 0..MaxMapLen} :
        \A i, k \in 1..Len(m) : m[i][1] = m[k][1] => i = k}

ExtractContentSample ==
    /\ an.op = "_extract_content_sample"
    /\ an.state = "called"
    /\ an' = [an EXCEPT !.state = "done",
                        !.out = extract_content_sample(an.content, an.section_map, an.max_size)]
    /\ UNCHANGED jobvars

\* ----------------------------------------- TokenAnalyzer._detect_content_type
\* `indicators`, in the order of the dict literal
indicators == <<
    <<"artigo_cientifico", <<
        <<"a", "b", "s", "t", "r", "a", "c", "t">>,
        <<"m", "e", "t", "o", "d", "o", "l", "o", "g", "i", "a">>,
        <<"r", "e", "f", "e", "r", "ê", "n", "c", "i", "a", "s">>,
        <<"c", "i", "t", "a", "ç", "õ", "e", "s">>,
        <<"e", "s", "t", "u", "d", "o">>,
        <<"p", "e", "s", "q", "u", "i", "s", "a">>,
        <<"d", "o", "i">>,
        <<"a", "n", "á", "l", "i", "s", "e">>,
        <<"c", "o", "n", "c", "l", "u", "s", "ã", "o">>,
        <<"b", "i", "b", "l", "i", "o", "g", "r", "a", "f", "i", "a">>>>>>,
    <<"literatura", <<
        <<"c", "a", "p", "í", "t", "u", "l", "o">>,
        <<"p", "e", "r", "s", "o", "n", "a", "g", "e", "n", "s">>,
        <<"h", "i", "s", "t", "ó", "r", "i", "a">>,
        <<"n", "a", "r", "r", "a", "t", "i", "v", "a">>,
        <<"r", "o", "m", "a", "n", "c", "e">>,
        <<"c", "o", "n", "t", "o">>,
        <<"a", "u", "t", "o", "r">>,
        <<"o", "b", "r", "a">>,
        <<"l", "i", "v", "r", "o">>,
        <<"f", "i", "c", "ç", "ã", "o">>>>>>,
    <<"documento_tecnico", <<
        <<"m", "a", "n", "u", "a", "l">>,
        <<"i", "n", "s", "t", "r", "u", "ç", "õ", "e", "s">>,
        <<"e", "s", "p", "e", "c", "i", "f", "i", "c", "a", "ç", "õ", "e", "s">>,
        <<"r", "e", "q", "u", "i", "s", "i", "t", "o", "s">>,
        <<"c", "o", "n", "f", "i", "g", "u", "r", "a", "ç", "ã", "o">>,
        <<"i", "m", "p", "l", "e", "m", "e", "n", "t", "a", "ç", "ã", "o">>,
        <<"s", "i", "s", "t", "e", "m", "a">>,
        <<"s", "o", "f", "t", "w", "a", "r", "e">>,
        <<"h", "a", "r", "d", "w", "a", "r", "e">>,
        <<"v", "e", "r", "s", "ã", "o">>>>>>,
    <<"conteudo_educacional", <<
        <<"a", "p", "r", "e", "n", "d", "i", "z", "a", "g", "e", "m">>,
        <<"e", "x", "e", "r", "c", "í", "c", "i", "o", "s">>,
        <<"h", "a", "b", "i", "l", "i", "d", "a", "d", "e", "s">>,
        <<"c", "o", "m", "p", "e", "t", "ê", "n", "c", "i", "a", "s">>,
        <<"b", "n", "c", "c">>,
        <<"c", "u", "r", "r", "í", "c", "u", "l", "o">>,
        <<"e", "d", "u", "c", "a", "ç", "ã", "o">>,
        <<"e", "n", "s", "i", "n", "o">>,
        <<"a", "l", "u", "n", "o">>,
        <<"p", "r", "o", "f", "e", "s", "s", "o", "r">>,
        <<"d", "i", "s", "c", "i", "p", "l", "i", "n", "a">>,
        <<"c", "o", "n", "h", "e", "c", "i", "m", "e", "n", "t", "o">>,
        <<"p", "e", "d", "a", "g", "ó", "g", "i", "c", "o">>,
        <<"e", "s", "c", "o", "l", "a", "r">>,
        <<"e", "s", "c", "o", "l", "a">>,
        <<"a", "v", "a", "l", "i", "a", "ç", "ã", "o">>,
        <<"e", "s", "t", "u", "d", "a", "n", "t", "e">>,
        <<"m", "i", "n", "i", "s", "t", "é", "r", "i", "o", " ", "d", "a", " ", "e", "d", "u", "c", "a", "ç", "ã", "o">>,
        <<"d", "i", "r", "e", "t", "r", "i", "z", "e", "s">>>>>>,
    <<"documento_legal", <<
        <<"l", "e", "i">>,
        <<"a", "r", "t", "i", "g", "o">>,
        <<"p", "a", "r", "á", "g", "r", "a", "f", "o">>,
        <<"n", "o", "r", "m", "a">>,
        <<"n", "o", "r", "m", "a", "t", "i", "v", "o">>,
        <<"r", "e", "g", "u", "l", "a", "m", "e", "n", "t", "o">>,
        <<"j", "u", "r", "í", "d", "i", "c", "o">>,
        <<"c", "o", "n", "t", "r", "a", "t", "o">>,
        <<"d", "e", "c", "r", "e", "t", "o">>,
        <<"l", "e", "g", "i", "s", "l", "a", "ç", "ã", "o">>,
        <<"c", "l", "á", "u", "s", "u", "l", "a">>,
        <<"j", "u", "d", "i", "c", "i", "a", "l">>,
        <<"d", "i", "r", "e", "i", "t", "o">>>>>>,
    <<"email_comunicacao", <<
        <<"a", "s", "s", "u", "n", "t", "o">>,
        <<"p", "r", "e", "z", "a", "d", "o">>,
        <<"c", "o", "r", "d", "i", "a", "l", "m", "e", "n", "t", "e">>,
        <<"a", "t", "e", "n", "c", "i", "o", "s", "a", "m", "e", "n", "t", "e">>,
        <<"r", "e", "u", "n", "i", "ã", "o">>,
        <<"i", "n", "f", "o", "r", "m", "a", "m", "o", "s">>,
        <<"c", "o", "n", "t", "a", "t", "o">>,
        <<"p", "r", "e", "z", "a", "d", "a">>,
        <<"e", "n", "c", "a", "m", "i", "n", "h", "o">>,
        <<"c", "o", "n", "f", "o", "r", "m", "e", " ", "s", "o", "l", "i", "c", "i", "t", "a", "d", "o">>>>>> >>

\* str.lower(), character by character
ToLower ==
    ("A" :> "a") @@ ("B" :> "b") @@ ("C" :> "c") @@ ("D" :> "d") @@ ("E" :> "e") @@ ("F" :> "f") @@
    ("G" :> "g") @@ ("H" :> "h") @@ ("I" :> "i") @@ ("J" :> "j") @@ ("K" :> "k") @@ ("L" :> "l") @@
    ("M" :> "m") @@ ("N" :> "n") @@ ("O" :> "o") @@ ("P" :> "p") @@ ("Q" :> "q") @@ ("R" :> "r") @@
    ("S" :> "s") @@ ("T" :> "t") @@ ("U" :> "u") @@ ("V" :> "v") @@ ("W" :> "w") @@ ("X" :> "x") @@
    ("Y" :> "y") @@ ("Z" :> "z") @@ ("Á" :> "á") @@ ("À" :> "à") @@ ("Â" :> "â") @@ ("Ã" :> "ã") @@
    ("É" :> "é") @@ ("Ê" :> "ê") @@ ("Í" :> "í") @@ ("Ó" :> "ó") @@ ("Ô" :> "ô") @@ ("Õ" :> "õ") @@
    ("Ú" :> "ú") @@ ("Ç" :> "ç")

LowerChar(c) == IF c \in DOMAIN ToLower THEN ToLower[c] ELSE c
Lower(s) == [i \in 1..Len(s) |-> LowerChar(s[i])]

\* `sub in s`
Contains(s, sub) == \E i \in 1..(Len(s) - Len(sub) + 1) : SubSeq(s, i, i + Len(sub) - 1) = sub

\* sum(1 for keyword in keywords if keyword.lower() in normalized)
Hits(keywords, normalized) ==
    Cardinality({i \in 1..Len(keywords) : Contains(normalized, Lower(keywords[i]))})

KeyAbstract == <<"#", " ", "A", "b", "s", "t", "r", "a", "c", "t">>
KeyIntroduction == <<"#", " ", "I", "n", "t", "r", "o", "d", "u", "c", "t", "i", "o", "n">>
KeyMethodology == <<"#", " ", "M", "e", "t", "h", "o", "d", "o", "l", "o", "g", "y">>

\* the structural checks: what they add to the score of a label
Bonus(content_type, content, section_map) ==
    LET normalized == Lower(content)
    IN  CASE content_type = "conteudo_educacional" ->
               IF \/ Contains(content, <<"B", "N", "C", "C">>)
                  \/ Contains(content, <<"B", "a", "s", "e", " ", "N", "a", "c", "i", "o", "n", "a", "l">>)
                  \/ Contains(content, <<"M", "i", "n", "i", "s", "t", "é", "r", "i", "o", " ", "d", "a", " ", "E", "d", "u", "c", "a", "ç", "ã", "o">>)
               THEN 10 ELSE 0
          [] content_type = "documento_tecnico" ->
               IF \/ Contains(normalized, <<"c", "ó", "d", "i", "g", "o">>)
                  \/ Contains(normalized, <<"p", "r", "o", "g", "r", "a", "m", "a">>)
                  \/ Contains(normalized, <<"f", "u", "n", "ç", "ã", "o">>)
                  \/ Contains(normalized, <<"b", "i", "b", "l", "i", "o", "t", "e", "c", "a">>)
               THEN 5 ELSE 0
          [] content_type = "documento_legal" ->
               IF \/ Contains(content, <<"§">>)
                  \/ Contains(content, <<"A", "r", "t", ".">>)
                  \/ Contains(content, <<"A", "r", "t", "i", "g", "o">>)
               THEN 5 ELSE 0
          [] content_type = "artigo_cientifico" ->
               IF \/ HasKey(section_map, KeyAbstract)
                  \/ HasKey(section_map, KeyIntroduction)
                  \/ HasKey(section_map, KeyMethodology)
               THEN 8 ELSE 0
          [] OTHER -> 0

\* scores, by position of the label in `indicators`
Scores(content, section_map) ==
    [i \in 1..Len(indicators) |->
        Hits(indicators[i][2], Lower(content)) + Bonus(indicators[i][1], content, section_map)]

\* max(scores, key=scores.get): the first key, in insertion order, whose score
\* is the greatest
MaxType(scores) ==
    CHOOSE i \in 1..Len(scores) :
        /\ \A k \in 1..Len(scores) : scores[k] <= scores[i]
        /\ \A k \in 1..(i - 1) : scores[k] < scores[i]

\* `if scores[max_type] > 1: return max_type`, else None
Winner(scores) == IF scores[MaxType(scores)] > 1 THEN indicators[MaxType(scores)][1] ELSE None

\* TokenAnalyzer._detect_content_type(content, section_map)
detect_content_type(content, section_map) ==
    IF content = <<>> THEN None
    ELSE CHOOSE max_type \in {Winner(scores) : scores \in {Scores(content, section_map)}} : TRUE

\* the arguments the calls are made with: samples of up to MaxWords words
Words == {<<"l", "e", "i">>,
          <<"A", "r", "t", "i", "g", "o">>,
          <<"n", "o", "r", "m", "a", "t", "i", "v", "o">>,
          <<"m", "a", "n", "u", "a", "l">>,
          <<"s", "i", "s", "t", "e", "m", "a">>,
          <<"b", "n", "c", "c">>,
          <<"B", "N", "C", "C">>,
          <<"a", "b", "s", "t", "r", "a", "c", "t">>,
          <<"d", "o", "i">>,
          <<"c", "ó", "d", "i", "g", "o">>,
          <<"x">>}

RECURSIVE JoinWords(_)
JoinWords(ws) ==
    IF ws = <<>> THEN <<>>
    ELSE IF Len(ws) = 1 THEN ws[1]
    ELSE ws[1] \o <<" ">> \o JoinWords(Tail(ws))

Samples == {JoinWords(ws) : ws \in UNION {[1..n -> Words] : n \in 0..MaxWords}}
DetectMaps == {<<>>, <<<<KeyAbstract, Str(<<"a">>)>>>>, <<<<KeyContent, Str(<<"a">>)>>>>}

\* the first call on an input
DetectContentType ==
    /\ an.op = "_detect_content_type"
    /\ an.state = "called"
    /\ an' = [an EXCEPT !.state = "done", !.out = Returned(detect_content_type(an.content, an.section_map))]
    /\ UNCHANGED jobvars

\* a second call on the same input
DetectContentTypeAgain ==
    /\ an.op = "_detect_content_type"
    /\ an.state = "done"
    /\ an' = [an EXCEPT !.state = "twice", !.again = Returned(detect_content_type(an.content, an.section_map))]
    /\ UNCHANGED jobvars

\* ---------------------------------------------------------------------------
\* count_tokens (src/tools/token_counter.py).  The tokenizer library is the
\* environment: each of its three calls either answers or raises.

\* what tiktoken.encoding_for_model(model_name) can do: return an encoding,
\* raise KeyError for a model that is not in its table ("gpt-4" is in every
\* version's table, "gpt-4.1" only in recent ones), or raise another error
\* when the encoding's file can neither be read nor fetched
EncodingForModel(model_name) ==
    CASE model_name = "gpt-4" -> {"encoding", "ConnectionError"}
      [] model_name = "gpt-4.1" -> {"encoding", "KeyError", "ConnectionError"}
      [] OTHER -> {"KeyError"}

\* what tiktoken.get_encoding("cl100k_base") can do
GetEncoding == {"encoding", "ConnectionError"}

\* what encoding.encode(text) can do: return a list of tokens or raise
Encode == {"tokens", "ValueError"}

\* lengths the token list of a text can have
TokenListLen(chars) == 1..Len(chars)

\* Python values passed as text: None, strings, an integer, and an object
\* whose __str__ raises
IntObject(chars) == [type |-> "int", chars |-> chars]
BadObject == [type |-> "object", chars |-> <<>>]

\* `not text`
Falsy(text) ==
    \/ text.type = "NoneType"
    \/ text.type = "str" /\ text.chars = <<>>
    \/ text.type = "int" /\ text.chars = <<"0">>

\* isinstance(text, str)
IsStr(text) == text.type = "str"

\* str(text) raises
StrRaises(text) == text.type = "object"

\* count_tokens(text, model_name) where the library behaves as env says
\* (env.model, env.fallback, env.encode as above, env.tokens the length of
\* the token list): Returned(n) or Raised(exception)
count_tokens(text, env) ==
    IF env.model = "KeyError" /\ env.fallback # "encoding" THEN Raised("ValueError")
    ELSE IF env.model \notin {"encoding", "KeyError"} THEN Raised(env.model)
    ELSE IF Falsy(text) THEN Returned(0)
    ELSE IF ~IsStr(text) /\ StrRaises(text) THEN Returned(0)
    ELSE IF env.encode # "tokens" THEN Returned(Len(text.chars) \div 4)
    ELSE Returned(env.tokens)

Texts == {NoneObject, Str(<<>>), Str(<<"a", "b", "c">>), Str(<<"l", "e", "i", " ", "a", "r", "t", "i", "g", "o">>),
          IntObject(<<"1", "2", "3">>), IntObject(<<"0">>), BadObject}

CountTokens ==
    /\ an.op = "count_tokens"
    /\ an.state = "called"
    /\ an' = [an EXCEPT !.state = "done", !.out = count_tokens(an.text, an.env)]
    /\ UNCHANGED jobvars

\* ---------------------------------------------------------------------------
\* TokenAnalyzer.analyze_document: the section split, the per-section token
\* counts, the sample, the content type, analyze_sections and the chunking
\* recommendation.

SampleSize == 50000

\* chunking_by_content, in the order of the dict literal
\* (variant: the table has no entry for documento_legal)
chunking_by_content_NoLegal == <<
    <<"artigo_cientifico", [none |-> FALSE, chunk_size |-> 1500, chunk_overlap |-> 150, desc |-> "textos densos"]>>,
    <<"literatura", [none |-> FALSE, chunk_size |-> 2000, chunk_overlap |-> 200, desc |-> "narrativas fluidas"]>>,
    <<"documento_tecnico", [none |-> FALSE, chunk_size |-> 1000, chunk_overlap |-> 150, desc |-> "manuais tecnicos"]>>,
    <<"conteudo_educacional", [none |-> FALSE, chunk_size |-> 1200, chunk_overlap |-> 120, desc |-> "textos didaticos"]>>,
    <<"email_comunicacao", [none |-> FALSE, chunk_size |-> 500, chunk_overlap |-> 50, desc |-> "comunicacoes curtas"]>> >>

chunking_by_content == <<
    <<"artigo_cientifico", [none |-> FALSE, chunk_size |-> 1500, chunk_overlap |-> 150, desc |-> "textos densos"]>>,
    <<"literatura", [none |-> FALSE, chunk_size |-> 2000, chunk_overlap |-> 200, desc |-> "narrativas fluidas"]>>,
    <<"documento_tecnico", [none |-> FALSE, chunk_size |-> 1000, chunk_overlap |-> 150, desc |-> "manuais tecnicos"]>>,
    <<"conteudo_educacional", [none |-> FALSE, chunk_size |-> 1200, chunk_overlap |-> 120, desc |-> "textos didaticos"]>>,
    <<"documento_legal", [none |-> FALSE, chunk_size |-> 800, chunk_overlap |-> 200, desc |-> "textos normativos"]>>,
    <<"email_comunicacao", [none |-> FALSE, chunk_size |-> 500, chunk_overlap |-> 50, desc |-> "comunicacoes curtas"]>> >>

\* the value None where a table entry is expected
NoneEntry == [none |-> TRUE, chunk_size |-> 0, chunk_overlap |-> 0, desc |-> ""]

\* self.chunking_by_content.get(content_type)
ChunkingGet(content_type) ==
    IF \E i \in 1..Len(chunking_by_content) : chunking_by_content[i][1] = content_type
    THEN chunking_by_content[CHOOSE i \in 1..Len(chunking_by_content) : chunking_by_content[i][1] = content_type][2]
    ELSE NoneEntry

\* part.strip()
Strip(s) ==
    LET ink == {i \in 1..Len(s) : ~IsSpace(s[i])}
    IN  IF ink = {} THEN <<>>
        ELSE SubSeq(s, CHOOSE i \in ink : \A k \in ink : i <= k, CHOOSE i \in ink : \A k \in ink : k <= i)

\* the first match of ^# .+ (MULTILINE) in s: "# " at the start of a line
\* followed by at least one character of that line; 0 when there is none
HeaderStart(s) ==
    LET starts == {p \in 1..(Len(s) - 2) : /\ (p = 1 \/ s[p - 1] = "\n")
                                            /\ s[p] = "#"
                                            /\ s[p + 1] = " "
                                            /\ s[p + 2] # "\n"}
    IN  IF starts = {} THEN 0 ELSE CHOOSE p \in starts : \A k \in starts : p <= k

\* the last position of the match that starts at p: the end of its line
HeaderEnd(s, p) == RunEnd(s, p + 2, ".")

\* re.split(r'(^# .+)', content, flags=re.MULTILINE): the texts between the
\* matches and the matches, alternating
RECURSIVE ReSplit(_)
ReSplit(s) ==
    IF HeaderStart(s) = 0 THEN <<s>>
    ELSE <<SubSeq(s, 1, HeaderStart(s) - 1), SubSeq(s, HeaderStart(s), HeaderEnd(s, HeaderStart(s)))>>
            \o ReSplit(SubSeq(s, HeaderEnd(s, HeaderStart(s)) + 1, Len(s)))

\* a title as a string, the key of the token dict
RECURSIVE Text(_)
Text(chars) == IF chars = <<>> THEN "" ELSE Head(chars) \o Text(Tail(chars))

\* section_map[current] = '': a new key goes last, a known key keeps its place
SetEmpty(section_map, key) ==
    IF HasKey(section_map, key)
    THEN [i \in 1..Len(section_map) |-> IF section_map[i][1] = key THEN <<key, Str(<<>>)>> ELSE section_map[i]]
    ELSE Append(section_map, <<key, Str(<<>>)>>)

\* section_map[current] += part
AddText(section_map, key, part) ==
    [i \in 1..Len(section_map) |->
        IF section_map[i][1] = key THEN <<key, Str(section_map[i][2].chars \o part)>> ELSE section_map[i]]

\* the loop `for part in sections` from position i on; current is <<>> for
\* None (no header seen yet)
RECURSIVE SectionLoop(_, _, _, _)
SectionLoop(parts, i, current, section_map) ==
    IF i > Len(parts) THEN section_map
    ELSE IF StartsWith(Strip(parts[i]), <<"#", " ">>)
         THEN SectionLoop(parts, i + 1, Strip(parts[i]), SetEmpty(section_map, Strip(parts[i])))
         ELSE IF current # <<>>
              THEN SectionLoop(parts, i + 1, current, AddText(section_map, current, parts[i]))
              ELSE SectionLoop(parts, i + 1, current, section_map)

SectionMapOf(content) == SectionLoop(ReSplit(content), 1, <<>>, <<>>)

\* the number of tokens the tokenizer gives a text: none for the empty
\* text, else one token for the whole text or one per character, as the
\* environment's tokenizer is
Tokens(chars, tokenizer) == IF chars = <<>> THEN 0 ELSE IF tokenizer = "one" THEN 1 ELSE Len(chars)

\* sections_tokens = {sec: count_tokens(txt, ...) for sec, txt in section_map.items()}
SectionsTokens(section_map, tokenizer) ==
    [i \in 1..Len(section_map) |-> <<Text(section_map[i][1]), Tokens(section_map[i][2].chars, tokenizer)>>]

\* analyze_document(content) with the given tokenizer: what it raises, or
\* the analysis with the keys content_type and chunking_recommendation
\* (typed: the two keys are present)
analyze_document(content, model_name, tokenizer) ==
    IF tokenizer = "none" THEN Raised("ValueError")
    ELSE IF extract_content_sample(content, SectionMapOf(content), SampleSize).raised # None
    THEN Raised(extract_content_sample(content, SectionMapOf(content), SampleSize).raised)
    ELSE IF analyze_sections(SectionsTokens(SectionMapOf(content), tokenizer), model_name).raised # None
    THEN Raised(analyze_sections(SectionsTokens(SectionMapOf(content), tokenizer), model_name).raised)
    ELSE Returned(CHOOSE result \in
            {[analysis |-> analyze_sections(SectionsTokens(section_map, tokenizer), model_name).value,
              typed |-> content_type # None,
              content_type |-> content_type,
              chunking_recommendation |-> IF content_type # None THEN ChunkingGet(content_type) ELSE NoneEntry] :
                 section_map \in {SectionMapOf(content)},
                 content_type \in {detect_content_type(extract_content_sample(content, section_map, SampleSize).value,
                                                       section_map) : section_map \in {SectionMapOf(content)}}} :
            TRUE)

Documents == {<<>>,
              <<"l", "e", "i", " ", "a", "r", "t", "i", "g", "o">>,
              <<"#", " ", "T", "i", "t", "l", "e">>,
              <<"#", " ", "C", "o", "n", "t", "e", "n", "t", "\n", "l", "e", "i", " ", "a", "r", "t", "i", "g", "o", " ", "n", "o", "r", "m", "a">>,
              <<"#", " ", "A", "b", "s", "t", "r", "a", "c", "t", "\n", "E", "s", "t", "e", " ", "e", "s", "t", "u", "d", "o", " ", "a", "p", "r", "e", "s", "e", "n", "t", "a", " ", "a", " ", "m", "e", "t", "o", "d", "o", "l", "o", "g", "i", "a">>,
              <<"#", " ", "T", "i", "t", "l", "e", "\n", "x", "\n", "#", " ", "C", "o", "n", "t", "e", "n", "t", "\n", "p", "r", "e", "z", "a", "d", "o", " ", "a", "s", "s", "u", "n", "t", "o", " ", "c", "o", "r", "d", "i", "a", "l", "m", "e", "n", "t", "e">>,
              <<"#", " ", "C", "o", "n", "t", "e", "n", "t", "\n", "a", "b", "c">>,
              <<"#", " ", "C", "o", "n", "t", "e", "n", "t", "\n", "\n", "l", "e", "i", " ", "a", "r", "t", "i", "g", "o", " ", "n", "o", "r", "m", "a", " ", "d", "e", "c", "r", "e", "t", "o", "\n", "\n", "a", "b", "c">>,
              <<"#", " ", "S", "u", "m", "m", "a", "r", "y", "\n", "l", "e", "i", " ", "a", "r", "t", "i", "g", "o">>,
              <<"#", " ", "T", "i", "t", "l", "e", "\n", "m", "a", "n", "u", "a", "l", "\n", "#", " ", "T", "i", "t", "l", "e", "\n">>,
              <<" ", " ", "#", " ", "a", "\n", "m", "a", "n", "u", "a", "l", " ", "g", "u", "i", "a">>,
              <<"#", " ", "\n", "#", " ", "C", "o", "n", "t", "e", "n", "t", "\n", "p", "r", "e", "z", "a", "d", "o">>}
Tokenizers == {"none", "one", "chars"}

AnalyzeDocument ==
    /\ an.op = "analyze_document"
    /\ an.state = "called"
    /\ an' = [an EXCEPT !.state = "done", !.out = analyze_document(an.content, an.model_name, an.tokenizer)]
    /\ UNCHANGED jobvars

AnalyzeSections ==
    /\ an.op = "analyze_sections"
    /\ an.state = "called"
    /\ an' = [an EXCEPT !.state = "done", !.out = analyze_sections(an.sections_dict, an.model_name)]
    /\ UNCHANGED jobvars

InitAnalyzer ==
    /\ InitJobs(AllIds)
    /\ req = NoRequest
    /\ rl = NoLimiter
    /\ \/ \E model_name \in ModelNames, ks \in SectionKeyLists :
             \E vs \in [1..Len(ks) -> TokenCounts] :
                an = [op |-> "analyze_sections", state |-> "called", model_name |-> model_name,
                      sections_dict |-> SectionDict(ks, vs), out |-> Returned(None)]
       \/ \E content \in Contents, section_map \in SectionMaps, max_size \in 0..MaxSize :
             an = [op |-> "_extract_content_sample", state |-> "called", content |-> content,
                   section_map |-> section_map, max_size |-> max_size, out |-> Returned(None)]
       \/ \E content \in Samples, section_map \in DetectMaps :
             an = [op |-> "_detect_content_type", state |-> "called", content |-> content,
                   section_map |-> section_map, out |-> Returned(None), again |-> Returned(None)]
       \/ \E text \in Texts, model_name \in ModelNames, fallback \in GetEncoding, encode \in Encode :
             \E model \in EncodingForModel(model_name), tokens \in TokenListLen(text.chars) \cup {1} :
                an = [op |-> "count_tokens", state |-> "called", text |-> text, model_name |-> model_name,
                      env |-> [model |-> model, fallback |-> fallback, encode |-> encode, tokens |-> tokens],
                      out |-> Returned(None)]
       \/ \E content \in Documents, model_name \in ModelNames, tokenizer \in Tokenizers :
             an = [op |-> "analyze_document", state |-> "called", content |-> content,
                   model_name |-> model_name, tokenizer |-> tokenizer, out |-> Returned(None)]

NextAnalyzer ==
    \/ AnalyzeDocument
    \/ AnalyzeSections
    \/ CountTokens
    \/ ExtractContentSample
    \/ DetectContentType
    \/ DetectContentTypeAgain

SpecAnalyzer == InitAnalyzer /\ [][NextAnalyzer]_vars

\* ---------------------------------------------------------------------------
\* POST /convert (src/api/routers/converter.py), after its dependencies have
\* let the request through.  One request; the job it creates has id 1.

MAX_FILE_SIZE == 52428800

SUPPORTED_FORMATS == {<<"p", "d", "f">>, <<"d", "o", "c", "x">>, <<"h", "t", "m", "l">>, <<"t", "x", "t">>,
                      <<"m", "d">>, <<"x", "m", "l">>, <<"e", "p", "u", "b">>, <<"j", "s", "o", "n">>,
                      <<"j", "p", "g">>, <<"j", "p", "e", "g">>, <<"p", "n", "g">>, <<"t", "i", "f", "f">>,
                      <<"t", "i", "f">>}

\* filename.split('.')[-1]: the part after the last dot, the whole name
\* when it has none
LastPart(filename) ==
    LET dots == {i \in 1..Len(filename) : filename[i] = "."}
    IN  IF dots = {} THEN filename
        ELSE SubSeq(filename, (CHOOSE i \in dots : \A k \in dots : k <= i) + 1, Len(filename))

\* file_ext = filename.split('.')[-1].lower()
FileExt(filename) == Lower(LastPart(filename))

\* A JSON value of the params form field.  An object is a function from its
\* keys; a string is kept as a TLA+ string where only its identity matters
\* (enumerations) and as its characters where its length matters.
JInt(n) == [kind |-> "int", n |-> n, s |-> "", l |-> <<>>]
JStr(s) == [kind |-> "str", n |-> 0, s |-> s, l |-> <<>>]
JBool(b) == [kind |-> "bool", n |-> IF b THEN 1 ELSE 0, s |-> "", l |-> <<>>]
JList(l) == [kind |-> "list", n |-> 0, s |-> "", l |-> l]
JChars(l) == [kind |-> "chars", n |-> 0, s |-> "", l |-> l]

\* the text of the params field: not JSON, or the JSON text of a value
NoFields == [k \in {} |-> JInt(0)]
Malformed == [json |-> "malformed", fields |-> NoFields]
JObject(fields) == [json |-> "object", fields |-> fields]
JArray == [json |-> "array", fields |-> NoFields]
JNull == [json |-> "null", fields |-> NoFields]

\* json.loads(params) raises json.JSONDecodeError
JSONDecodeError(text) == text.json = "malformed"

OcrEngine == {"auto", "tesseract", "tesseract_cli", "easyocr", "rapidocr", "mac"}
AllProfiles == {"llms-min", "llms-ctx", "llms-tables", "llms-images", "llms-raw", "llms-full"}
AllOutputFormats == {"llms", "md", "json", "html"}

IsLowerOrUnderscore(c) ==
    c \in {"a", "b", "c", "d", "e", "f", "g", "h", "i", "j", "k", "l", "m", "n", "o", "p", "q", "r", "s",
           "t", "u", "v", "w", "x", "y", "z", "_"}

\* the field validators of ConversionRequest (src/api/models.py), field by
\* field; d is the object's function
FieldsValid(d) ==
    /\ "ocr_engine" \in DOMAIN d => d["ocr_engine"].kind = "str" /\ d["ocr_engine"].s \in OcrEngine
    /\ "ocr_language" \in DOMAIN d =>
          /\ d["ocr_language"].kind = "chars"
          /\ 3 <= Len(d["ocr_language"].l) /\ Len(d["ocr_language"].l) <= 7
          /\ \A i \in 1..Len(d["ocr_language"].l) : IsLowerOrUnderscore(d["ocr_language"].l[i])
    /\ "force_ocr" \in DOMAIN d => d["force_ocr"].kind = "bool"
    /\ "profile" \in DOMAIN d => d["profile"].kind = "str" /\ d["profile"].s \in AllProfiles
    /\ "output_formats" \in DOMAIN d =>
          /\ d["output_formats"].kind = "list"
          /\ \A i \in 1..Len(d["output_formats"].l) : d["output_formats"].l[i] \in AllOutputFormats
          /\ d["output_formats"].l # <<>>
    /\ "chunk_size" \in DOMAIN d =>
          d["chunk_size"].kind = "int" /\ d["chunk_size"].n >= 100 /\ d["chunk_size"].n <= 100000
    /\ "chunk_overlap" \in DOMAIN d =>
          d["chunk_overlap"].kind = "int" /\ d["chunk_overlap"].n >= 0 /\ d["chunk_overlap"].n <= 1000
    /\ "model_name" \in DOMAIN d =>
          /\ d["model_name"].kind = "chars"
          /\ 1 <= Len(d["model_name"].l) /\ Len(d["model_name"].l) <= 100
    /\ "to_langchain" \in DOMAIN d => d["to_langchain"].kind = "bool"

\* (variant: the overlap may equal the chunk size)
validate_chunk_overlap_Greater(d) ==
    ("chunk_size" \in DOMAIN d /\ "chunk_overlap" \in DOMAIN d) => ~(d["chunk_overlap"].n > d["chunk_size"].n)

\* the model validator of ConversionRequest
validate_chunk_overlap(d) ==
    ("chunk_size" \in DOMAIN d /\ "chunk_overlap" \in DOMAIN d) => ~(d["chunk_overlap"].n >= d["chunk_size"].n)

\* ConversionRequest(**params_dict) raises: the value is not an object
\* (TypeError) or the object fails validation (ValidationError)
ParamsRaise(text) ==
    \/ text.json # "object"
    \/ ~FieldsValid(text.fields)
    \/ ~validate_chunk_overlap(text.fields)

\* params_obj, as far as the orchestrator reads it
ParamsObj(text) ==
    LET d == text.fields
    IN  [profile |-> IF "profile" \in DOMAIN d THEN d["profile"].s ELSE "llms-full",
         output_formats |-> IF "output_formats" \in DOMAIN d
                               THEN {d["output_formats"].l[i] : i \in 1..Len(d["output_formats"].l)}
                               ELSE {"llms"},
         to_langchain |-> IF "to_langchain" \in DOMAIN d THEN d["to_langchain"].n = 1 ELSE FALSE]

\* the answer of convert_document before create_conversion_job is called:
\* 400 for a request it rejects, 0 when it goes on to create the job.
\* file is None or the upload's filename, url is None or a string, fetched
\* tells whether fetch_and_save_url returned, size is len(file_content).
Rejects(r) ==
    IF r.file = NoneObject /\ r.url.chars = <<>> THEN 400
    ELSE IF r.file # NoneObject /\ r.url.chars # <<>> THEN 400
    ELSE IF r.url.chars # <<>> /\ ~r.fetched THEN 400
    ELSE IF r.url.chars = <<>> /\ r.file.chars = <<>> THEN 400
    ELSE IF FileExt(IF r.url.chars # <<>> THEN <<"t", "m", "p", ".", "h", "t", "m", "l">> ELSE r.file.chars)
              \notin SUPPORTED_FORMATS THEN 400
    ELSE IF r.size > MAX_FILE_SIZE THEN 400
    ELSE IF JSONDecodeError(r.params) THEN 400
    ELSE IF ParamsRaise(r.params) THEN 400
    ELSE 0

\* convert_document up to its call of create_conversion_job
CD_Validate ==
    /\ req.stage = "received"
    /\ req' = [req EXCEPT !.stage = IF Rejects(req) = 0 THEN "create" ELSE "answered", !.http = Rejects(req)]
    /\ UNCHANGED <<redis, ttl, files, params, cpc, pc, exc, resultado, calls, expired, reader, tasks, runs, an, rl>>

\* job_id = await create_conversion_job(file_content, filename, params_obj)
CD_Create ==
    /\ req.stage = "create"
    /\ CCJ_HSet(1, ParamsObj(req.params))

\* return ConversionResponse(job_id=job_id, status="processing"), or the
\* error of create_conversion_job leaves the handler (HTTP 500)
CD_Return ==
    /\ req.stage = "create"
    /\ cpc[1] \in {"returned", "raised"}
    /\ req' = [req EXCEPT !.stage = "answered", !.http = IF cpc[1] = "returned" THEN 200 ELSE 500]
    /\ UNCHANGED <<redis, ttl, files, params, cpc, pc, exc, resultado, calls, expired, reader, tasks, runs, an, rl>>

Filenames == {<<"a", ".", "p", "d", "f">>,
              <<"a", ".", "P", "D", "F">>,
              <<"a", ".", "b", ".", "t", "x", "t">>,
              <<"a", ".", "e", "x", "e">>,
              <<"p", "d", "f">>,
              <<"a", ".">>,
              <<>>}
Uploads == {NoneObject} \cup {Str(f) : f \in Filenames}
Urls == {NoneObject, Str(<<>>), Str(<<"h", "t", "t", "p", ":", "/", "/", "x">>)}
Sizes == {0, MAX_FILE_SIZE, MAX_FILE_SIZE + 1}
ParamTexts ==
    {Malformed, JArray, JNull,
     JObject(NoFields),
     JObject("profile" :> JStr("llms-min")),
     JObject("profile" :> JStr("llms-huge")),
     JObject("output_formats" :> JList(<<>>)),
     JObject(("output_formats" :> JList(<<"llms", "json">>)) @@ ("to_langchain" :> JBool(TRUE))),
     JObject(("chunk_size" :> JInt(100)) @@ ("chunk_overlap" :> JInt(100))),
     JObject(("chunk_size" :> JInt(100)) @@ ("chunk_overlap" :> JInt(99))),
     JObject("chunk_overlap" :> JInt(1000)),
     JObject("chunk_size" :> JInt(99)),
     JObject("ocr_language" :> JChars(<<"p", "t">>)),
     JObject(("ocr_language" :> JChars(<<"p", "o", "r">>)) @@ ("model_name" :> JChars(<<"g", "p", "t", "-", "4">>))),
     JObject("model_name" :> JChars(<<>>))}

InitConvert ==
    /\ InitJobs(AllIds)
    /\ an = NoCall
    /\ rl = NoLimiter
    /\ \E file \in Uploads, url \in Urls, fetched \in BOOLEAN, size \in Sizes, text \in ParamTexts :
          req = [stage |-> "received", file |-> file, url |-> url, fetched |-> fetched, size |-> size,
                 params |-> text, http |-> 0]

NextConvert ==
    \/ CD_Validate
    \/ CD_Create
    \/ CCJ_Expire(1)
    \/ CCJ_SaveAndSchedule(1)
    \/ CD_Return

SpecConvert == InitConvert /\ [][NextConvert]_vars

\* ---------------------------------------------------------------------------
\* DocumentConverterTool.processar_em_lote (src/tools/document_converter.py).
\* The directory is a function from the names of its files to what self.run
\* does with each; the loop runs one file per step.

MaxFiles == 3

\* what the conversion of a file does: self.run returns the document,
\* self.run raises, or the document's num_pages() raises while the success
\* entry is being built
RunOutcomes == {"doc", "RuntimeError", "FileNotFoundError", "num_pages"}

\* glob's match of a name against a pattern "*<suffix>": the name ends with
\* the suffix (case matters) and does not start with a dot
GlobMatches(nome, suffix) ==
    /\ Len(nome) >= Len(suffix)
    /\ SubSeq(nome, Len(nome) - Len(suffix) + 1, Len(nome)) = suffix
    /\ nome # <<>> => nome[1] # "."

\* the orders in which glob.glob can list the names of a set
Orders(names) ==
    {order \in [1..Cardinality(names) -> names] : \A i, k \in 1..Cardinality(names) : i # k => order[i] # order[k]}

Options == {"buscar", "classificar", "visualizar"}

\* what an optional step left in the entry: the key is absent (not asked
\* for), holds its result, or holds {"erro": ...}
StepResults == {"absent", "result", "erro"}

\* resultados[arquivo] after the success path of one iteration
SuccessEntry(nome, steps) ==
    [status |-> "success", mensagem |-> "Processado com sucesso", nome |-> nome, busca |-> steps["buscar"], classificacao |-> steps["classificar"],
     visualizacao |-> steps["visualizar"], tempo |-> TRUE]

\* resultados[arquivo] after the except clause of one iteration
ErrorEntry(nome, e) ==
    [status |-> "error", mensagem |-> e, nome |-> nome, busca |-> "absent", classificacao |-> "absent",
     visualizacao |-> "absent", tempo |-> TRUE]

\* arquivos = glob.glob(os.path.join(diretorio, padrao))
PEL_Glob ==
    /\ an.op = "processar_em_lote"
    /\ an.state = "called"
    /\ \E arquivos \in Orders({nome \in DOMAIN an.dir : GlobMatches(nome, an.padrao)}) :
          an' = [an EXCEPT !.state = "loop", !.arquivos = arquivos]
    /\ UNCHANGED jobvars

\* one iteration of `for arquivo in arquivos`: the try block with its three
\* optional steps, each in a try of its own, or the except clause
PEL_File ==
    /\ an.op = "processar_em_lote"
    /\ an.state = "loop"
    /\ Len(an.resultados) < Len(an.arquivos)
    /\ LET arquivo == an.arquivos[Len(an.resultados) + 1]
       IN  IF an.dir[arquivo] = "doc"
           THEN \E steps \in [Options -> StepResults] :
                   /\ \A o \in Options : steps[o] = "absent" <=> o \notin an.opcoes
                   /\ an' = [an EXCEPT !.resultados = Append(@, <<arquivo, SuccessEntry(arquivo, steps)>>)]
           ELSE an' = [an EXCEPT !.resultados = Append(@, <<arquivo, ErrorEntry(arquivo, an.dir[arquivo])>>)]
    /\ UNCHANGED jobvars

\* (variant: the loop is left at the first file whose conversion raises)
PEL_Return_AfterError ==
    /\ an.op = "processar_em_lote"
    /\ an.state = "loop"
    /\ \/ Len(an.resultados) = Len(an.arquivos)
       \/ Len(an.resultados) > 0 /\ an.resultados[Len(an.resultados)][2].status = "error"
    /\ an' = [an EXCEPT !.state = "done", !.out = Returned(an.resultados)]
    /\ UNCHANGED jobvars

\* return resultados
PEL_Return ==
    /\ an.op = "processar_em_lote"
    /\ an.state = "loop"
    /\ Len(an.resultados) = Len(an.arquivos)
    /\ an' = [an EXCEPT !.state = "done", !.out = Returned(an.resultados)]
    /\ UNCHANGED jobvars

FileNames == {<<"a", ".", "p", "d", "f">>, <<"b", ".", "p", "d", "f">>, <<"c", ".", "p", "d", "f">>, <<"D", ".", "P", "D", "F">>, <<".", "e", ".", "p", "d", "f">>}
Patterns == {<<".", "p", "d", "f">>, <<".", "P", "D", "F">>}

InitBatch ==
    /\ InitJobs(AllIds)
    /\ req = NoRequest
    /\ rl = NoLimiter
    /\ \E names \in SUBSET FileNames, padrao \in Patterns, opcoes \in SUBSET Options :
          /\ Cardinality(names) <= MaxFiles
          /\ \E dir \in [names -> RunOutcomes] :
                an = [op |-> "processar_em_lote", state |-> "called", dir |-> dir, padrao |-> padrao,
                      opcoes |-> opcoes, arquivos |-> <<>>, resultados |-> <<>>, out |-> Returned(None)]

NextBatch ==
    \/ PEL_Glob
    \/ PEL_File
    \/ PEL_Return

SpecBatch == InitBatch /\ [][NextBatch]_vars

\* ---------------------------------------------------------------------------
\* rate_limiter (src/api/dependencies.py).  The store keeps one counter per
\* bucket key rl:<key>:<minute>; time is in seconds.  A request reads the
\* clock, then awaits INCR, then (for the count 1) awaits EXPIRE: the store
\* receives each command some time after the request sent it.

MaxRequests == 3
MaxTime == 61

\* RATE_LIMIT, the configured LLMS_RATE_LIMIT (60 when it is not set)
RATE_LIMIT == 1

Requests == 1..MaxRequests
Buckets == 0..(MaxTime \div 60)

\* the X-API-Key header a request can carry: the configured key, another
\* one, or none
Headers == {"key", "other", "missing"}

NoExpiry == -1

\* int(time.time() // 60)
BucketOf(now) == now \div 60

\* the request r returns from rate_limiter with the outcome o
Answer(r, o) == rl' = [rl EXCEPT !.reqs[r].pc = "done", !.reqs[r].outcome = o]

\* lines 22-28: without a configured API_KEY the request passes; a header
\* that is not the key is answered 401; otherwise the bucket key is built
\* from the clock and INCR is sent
RL_Start(r) ==
    /\ rl.stage = "on"
    /\ rl.reqs[r].pc = "start"
    /\ IF ~rl.api_key THEN Answer(r, "passed")
       ELSE IF rl.reqs[r].header # "key" THEN Answer(r, "401")
       ELSE rl' = [rl EXCEPT !.reqs[r].pc = "incr", !.reqs[r].bucket = BucketOf(rl.now)]
    /\ UNCHANGED <<redis, ttl, files, params, cpc, pc, exc, resultado, calls, expired, reader, tasks, runs, an, req>>

\* count = await redis_client.incr(bucket_key): the store adds 1 to the
\* counter (a missing key counts from 0 and has no expiration), or the
\* command raises and the request ends with an error
RL_Incr(r) ==
    /\ rl.stage = "on"
    /\ rl.reqs[r].pc = "incr"
    /\ \/ rl' = [rl EXCEPT !.reqs[r].pc = "expire",
                           !.reqs[r].count = rl.count[rl.reqs[r].bucket] + 1,
                           !.count[rl.reqs[r].bucket] = @ + 1]
       \/ Answer(r, "500")
    /\ UNCHANGED <<redis, ttl, files, params, cpc, pc, exc, resultado, calls, expired, reader, tasks, runs, an, req>>

\* `if count == 1: await redis_client.expire(bucket_key, 60)` (on a key that
\* is there; it may raise), then `if count > RATE_LIMIT: raise 429`
RL_Expire(r) ==
    /\ rl.stage = "on"
    /\ rl.reqs[r].pc = "expire"
    /\ LET b == rl.reqs[r].bucket
           o == IF rl.reqs[r].count > RATE_LIMIT THEN "429" ELSE "passed"
       IN  IF rl.reqs[r].count = 1
           THEN \/ rl' = [rl EXCEPT !.reqs[r].pc = "done", !.reqs[r].outcome = o,
                                    !.expiry[b] = IF rl.count[b] > 0 THEN rl.now + 60 ELSE @]
                \/ Answer(r, "500")
           ELSE Answer(r, o)
    /\ UNCHANGED <<redis, ttl, files, params, cpc, pc, exc, resultado, calls, expired, reader, tasks, runs, an, req>>

\* d seconds pass; the store evicts the counters whose expiration is reached
RL_Tick(d) ==
    /\ rl.stage = "on"
    /\ rl.now + d <= MaxTime
    /\ rl' = [rl EXCEPT !.now = @ + d,
                        !.count = [b \in Buckets |-> IF rl.expiry[b] # NoExpiry /\ rl.expiry[b] <= rl.now + d
                                                     THEN 0 ELSE rl.count[b]],
                        !.expiry = [b \in Buckets |-> IF rl.expiry[b] # NoExpiry /\ rl.expiry[b] <= rl.now + d
                                                      THEN NoExpiry ELSE rl.expiry[b]]]
    /\ UNCHANGED <<redis, ttl, files, params, cpc, pc, exc, resultado, calls, expired, reader, tasks, runs, an, req>>

InitRate ==
    /\ InitJobs(AllIds)
    /\ an = NoCall
    /\ req = NoRequest
    /\ \E api_key \in BOOLEAN, headers \in [Requests -> Headers] :
          rl = [stage |-> "on", api_key |-> api_key, now |-> 0,
                count |-> [b \in Buckets |-> 0], expiry |-> [b \in Buckets |-> NoExpiry],
                reqs |-> [r \in Requests |-> [pc |-> "start", header |-> headers[r], bucket |-> 0,
                                              count |-> 0, outcome |-> ""]]]

NextRate ==
    \/ \E r \in Requests : RL_Start(r)
    \/ \E r \in Requests : RL_Incr(r)
    \/ \E r \in Requests : RL_Expire(r)
    \/ \E d \in {1, 59} : RL_Tick(d)

SpecRate == InitRate /\ [][NextRate]_vars

\* ------------------------------------------------------------------ claims
Terminal == {"completed", "failed"}

\* the status-carrying writes the store received for a job, in order
StatusWrites(j) == SelectSeq(calls[j], LAMBDA c : c.op = "hset" /\ "status" \in DOMAIN c.mapping)

\* the progress-carrying writes the store received for a job, in order
ProgressWrites(j) == SelectSeq(calls[j], LAMBDA c : c.op = "hset" /\ "progress" \in DOMAIN c.mapping)

\* process_document has ended, by returning or by an exception leaving it
Ended(j) == pc[j] \in {"done", "escaped"}

\* C1: once the status of a job has been written as completed or failed, no
\* later write of the orchestrator changes it.
C1_TerminalStatusIsFinal ==
    \A j \in JobIds : \A a, b \in DOMAIN StatusWrites(j) :
        (a < b /\ StatusWrites(j)[a].mapping["status"] \in Terminal)
            => StatusWrites(j)[b].mapping["status"] = StatusWrites(j)[a].mapping["status"]

\* C2: every exception raised inside process_document is caught there and
\* persisted as status=failed with its message; none leaves the routine.
C2_ExceptionsBecomeFailed ==
    \A j \in JobIds : (Ended(j) /\ exc[j] # None) =>
        /\ pc[j] = "done"
        /\ StatusWrites(j) # <<>>
        /\ StatusWrites(j)[Len(StatusWrites(j))].mapping = (("status" :> "failed") @@ ("error" :> exc[j]))

\* C3: once process_document has ended, on whatever path, the temporary
\* input file of the job no longer exists.
C3_TempFileRemovedAtEnd ==
    \A j \in JobIds : Ended(j) => ~files[j]

\* C4: the progress values written for a job never decrease and stay within
\* [0, 1], the write that sets status=completed sets progress to 1.0, and the
\* progress a reader finds in the record is the latest value written.
C4_ProgressNeverDecreases ==
    \A j \in JobIds :
        /\ \A a \in DOMAIN ProgressWrites(j) :
              Float(ProgressWrites(j)[a].mapping["progress"]) \in 0..100
        /\ \A a, b \in DOMAIN ProgressWrites(j) :
              a < b => Float(ProgressWrites(j)[a].mapping["progress"])
                         <= Float(ProgressWrites(j)[b].mapping["progress"])
        /\ \A a \in DOMAIN StatusWrites(j) :
              StatusWrites(j)[a].mapping["status"] = "completed"
                 => Get(StatusWrites(j)[a].mapping, "progress") = "1.0"
        /\ "progress" \in DOMAIN redis[j]
              => redis[j]["progress"] = ProgressWrites(j)[Len(ProgressWrites(j))].mapping["progress"]

\* a job that went through every checkpoint and is stored as completed
C4_Witness ==
    \E j \in JobIds :
        /\ Len(ProgressWrites(j)) = 8
        /\ Get(redis[j], "status") = "completed"
        /\ Get(redis[j], "progress") = "1.0"

\* C5: a stored record carries a result only with status completed and an
\* error only with status failed.
C5_ResultAndErrorMatchStatus ==
    \A j \in JobIds :
        /\ "result" \in DOMAIN redis[j] => Get(redis[j], "status") = "completed"
        /\ "error" \in DOMAIN redis[j] => Get(redis[j], "status") = "failed"

\* the expiration the TTL policy gives a terminal status
TerminalTTL(st) == IF st = "completed" THEN JOB_TTL_COMPLETED ELSE JOB_TTL_FAILED

\* C6: once the routine has ended, a stored record in a terminal state has
\* received its terminal expiration after the terminal write (and does not
\* run on the remainder of JOB_TTL_PROCESSING).
C6_TerminalRecordHasTerminalTTL ==
    \A j \in JobIds :
        (Ended(j) /\ Get(redis[j], "status") \in Terminal) =>
            /\ calls[j][Len(calls[j])].op = "expire"
            /\ calls[j][Len(calls[j])].seconds = TerminalTTL(redis[j]["status"])
            /\ ttl[j] # NoTTL

\* the first two store calls of create_conversion_job
InitialWrites == <<Call("hset", job_meta, 0), Call("expire", EmptyHash, JOB_TTL_PROCESSING)>>

\* C7: when the background task exists, the initial record (status=created,
\* progress=0) and its JOB_TTL_PROCESSING expiration were the first writes the
\* store received; create_conversion_job has returned exactly when the task
\* has been created, and until the task takes its first step nothing else
\* has been written.
C7_RecordWrittenBeforeSchedule ==
    \A j \in JobIds :
        /\ (pc[j] # "none") <=> (cpc[j] = "returned")
        /\ pc[j] # "none" =>
              /\ Len(calls[j]) >= 2
              /\ SubSeq(calls[j], 1, 2) = InitialWrites
              /\ calls[j][1].mapping["status"] = "created"
              /\ calls[j][1].mapping["progress"] = "0"
        /\ pc[j] = "scheduled" => Len(calls[j]) = 2

\* create_conversion_job has returned, the task has not started, the record
\* is stored as created with the processing expiration
C7_Witness ==
    \E j \in JobIds :
        /\ cpc[j] = "returned"
        /\ pc[j] = "scheduled"
        /\ Get(redis[j], "status") = "created"
        /\ ttl[j] = JOB_TTL_PROCESSING

\* a step in which the reader starts a call for id i
Calls(i) == reader.pc = "idle" /\ reader' # reader /\ reader'.job = i

\* a step in which a get_job_status call for id i returns
StatusReturns(i) == reader' # reader /\ reader'.pc = "idle" /\ reader'.op = "status" /\ reader'.job = i

\* C8: a call for an id that has no record in the store (never created, or
\* evicted) is answered at once: get_job_status with "not_found", no progress
\* and no result, get_job_details with None, and the route with 404.
C8_AbsentIsNotFound ==
    [][\A i \in AllIds : (Calls(i) /\ ~Exists(i)) =>
          /\ reader'.pc = "idle"
          /\ reader'.http = 404
          /\ \/ /\ reader'.op = "status"
                /\ reader'.returns = "tuple"
                /\ reader'.ret.status = "not_found"
                /\ reader'.ret.progress = -1
                /\ reader'.ret.result = None
             \/ /\ reader'.op = "details"
                /\ reader'.returns = "None"]_vars

\* the reader got not-found for a job whose record was evicted
C8_Witness ==
    /\ reader.returns = "tuple"
    /\ reader.ret.status = "not_found"
    /\ reader.http = 404
    /\ reader.job \in JobIds
    /\ expired[reader.job] # "no"

\* C9: once the record of a job has expired while its conversion was running,
\* every later get_job_status call for it reports not-found.
C9_ExpiredStaysNotFound ==
    [][\A j \in JobIds : (Calls(j) /\ reader'.op = "status" /\ expired[j] = "converting") =>
          /\ reader'.pc = "idle"
          /\ reader'.ret.status = "not_found"]_vars

\* positions of the task before the conversion has returned
BeforeWork == {"scheduled", "p_hset02", "p_hsetmsg", "converting"}

\* C10: a get_job_status call that returns after create_conversion_job has
\* returned, while the task has not got past the conversion and the record has
\* not expired, returns status created or processing.
C10_EarlyStatusIsCreatedOrProcessing ==
    [][\A j \in JobIds :
          (StatusReturns(j) /\ cpc[j] = "returned" /\ pc[j] \in BeforeWork /\ expired[j] = "no")
             => reader'.ret.status \in {"created", "processing"}]_vars

\* the reader was told "processing" while the conversion is running
C10_Witness ==
    /\ reader.returns = "tuple"
    /\ reader.op = "status"
    /\ reader.job \in JobIds
    /\ reader.ret.status = "processing"
    /\ pc[reader.job] = "converting"
    /\ expired[reader.job] = "no"

\* C11: a get_job_status call that returns after the routine of a job has run to
\* its end without an error (the record not having expired) returns status
\* completed, progress 1.0 and a result, whatever output formats were requested.
C11_FinishedJobHasResult ==
    [][\A j \in JobIds :
          (StatusReturns(j) /\ pc[j] = "done" /\ exc[j] = None /\ expired[j] = "no")
             => /\ reader'.ret.status = "completed"
                /\ reader'.ret.progress = 100
                /\ reader'.ret.result # None]_vars

\* C12: among any number of concurrent create_conversion_job calls, every call
\* that returned a job id has created exactly one process_document task for
\* that id, no id ever has more than one task, and no job's conversion is
\* started more than once.
C12_TaskStartedOncePerJob ==
    \A j \in DOMAIN tasks :
        /\ tasks[j] <= 1
        /\ runs[j] <= tasks[j]
        /\ (cpc[j] = "returned") <=> (tasks[j] = 1)

\* two calls were in flight together and both conversions are running
C12_Witness ==
    /\ \A j \in CallIds : j \in DOMAIN tasks /\ tasks[j] = 1 /\ runs[j] = 1 /\ pc[j] = "converting"
    /\ Cardinality(CallIds) >= 2

\* the analyze_sections call has been answered
Analyzed == an.op = "analyze_sections" /\ an.state = "done"

\* |sum of the percentages - 100| <= 1e-6, the ratios sharing one denominator
SumsTo100(percentages) ==
    LET n == Sum([i \in 1..Len(percentages) |-> <<percentages[i].key, percentages[i].num>>])
        d == percentages[1].den
        diff == IF n >= 100 * d THEN n - 100 * d ELSE 100 * d - n
    IN  diff = 0 \/ diff <= d \div 1000000

\* C13: for every non-empty mapping given to analyze_sections, mappings whose
\* counts are all 0 included, the call returns percentages that have exactly
\* the keys of the input and sum to 100 within the tolerance.
C13_PercentagesSumTo100 ==
    (Analyzed /\ an.sections_dict # <<>>)
        => /\ an.out.raised = None
           /\ Keys(an.sections_dict) = [i \in 1..Len(an.out.value.percentages) |-> an.out.value.percentages[i].key]
           /\ SumsTo100(an.out.value.percentages)

\* C14: for every non-empty mapping and every model, known or not,
\* analyze_sections returns total_tokens = the sum of the counts and
\* exceeds_limit = (total_tokens > model_limit), and its first recommendation
\* is the "exceeds the limit" sentence when exceeds_limit is true and the
\* "within the limit" sentence when it is false.
C14_TotalAndExceedsLimit ==
    (Analyzed /\ an.sections_dict # <<>>)
        => /\ an.out.raised = None
           /\ an.out.value.total_tokens = Sum(an.sections_dict)
           /\ an.out.value.exceeds_limit = (Sum(an.sections_dict) > ModelLimit(an.model_name))
           /\ an.out.value.recommendations # <<>>
           /\ an.out.value.recommendations[1].kind =
                 (IF an.out.value.exceeds_limit THEN "excede o limite do modelo" ELSE "dentro do limite")

\* the recommendations the caller of analyze_sections received (none when
\* the call raised)
RecommendationsOf(out) == IF out.raised = None THEN out.value.recommendations ELSE <<>>

HasKind(recs, kind) == \E i \in 1..Len(recs) : recs[i].kind = kind

TokensOf(sections_dict, key) ==
    sections_dict[CHOOSE i \in 1..Len(sections_dict) : sections_dict[i][1] = key][2]

\* the expensive_sections the caller of analyze_sections received (none when
\* the call raised)
ExpensiveSectionsOf(out) == IF out.raised = None THEN out.value.expensive_sections ELSE <<>>

\* C19: the expensive_sections that analyze_sections returns are exactly the
\* sections whose count is strictly greater than 25% of model_limit, each
\* once, listed by descending count.
C19_ExpensiveSections ==
    Analyzed =>
        LET e == ExpensiveSectionsOf(an.out)
        IN  /\ {e[i] : i \in 1..Len(e)} =
                 {an.sections_dict[i][1] : i \in {k \in 1..Len(an.sections_dict) :
                                                    4 * an.sections_dict[k][2] > ModelLimit(an.model_name)}}
            /\ \A i, k \in 1..Len(e) : i < k =>
                 /\ e[i] # e[k]
                 /\ TokensOf(an.sections_dict, e[i]) >= TokensOf(an.sections_dict, e[k])

\* two expensive sections were given in ascending order next to one that is
\* exactly at 25% of the limit
C19_Witness ==
    /\ Analyzed
    /\ an.out.raised = None
    /\ Len(an.out.value.expensive_sections) = 2
    /\ Len(an.sections_dict) = 3
    /\ 4 * an.sections_dict[1][2] = ModelLimit(an.model_name)
    /\ an.sections_dict[2][2] < an.sections_dict[3][2]
    /\ an.out.value.expensive_sections = <<an.sections_dict[3][1], an.sections_dict[2][1]>>

\* the table entries whose limit is at least n
Sufficient(n) == {i \in 1..Len(model_limits) : model_limits[i][2] >= n}

\* C20: when total_tokens exceeds model_limit, analyze_sections recommends by
\* name one model of the table whose limit is >= total_tokens and is the
\* smallest such limit, and does not recommend splitting; when no entry of the
\* table has a limit >= total_tokens it recommends splitting into several
\* documents and recommends no model.
C20_RecommendsSmallestSufficientModel ==
    (Analyzed /\ Sum(an.sections_dict) > ModelLimit(an.model_name)) =>
        LET recs == RecommendationsOf(an.out)
            named == {i \in 1..Len(recs) : recs[i].kind = "Considere usar"}
            total == Sum(an.sections_dict)
        IN  IF Sufficient(total) # {}
            THEN /\ Cardinality(named) = 1
                 /\ \A r \in named : \E i \in Sufficient(total) :
                       /\ recs[r].model = model_limits[i][1]
                       /\ recs[r].tokens = model_limits[i][2]
                       /\ \A k \in Sufficient(total) : model_limits[i][2] <= model_limits[k][2]
                 /\ ~HasKind(recs, "excede o limite de todos os modelos conhecidos")
            ELSE /\ named = {}
                 /\ HasKind(recs, "excede o limite de todos os modelos conhecidos")

\* a total over the limit for which the smallest sufficient model is not the
\* first sufficient entry of the table
C20_Witness ==
    /\ Analyzed
    /\ Sum(an.sections_dict) > ModelLimit(an.model_name)
    /\ \E i, k \in Sufficient(Sum(an.sections_dict)) : i < k /\ model_limits[k][2] < model_limits[i][2]
    /\ HasKind(RecommendationsOf(an.out), "Considere usar")

\* a total over every limit of the table: splitting was recommended
C20_WitnessSplit ==
    /\ Analyzed
    /\ Sufficient(Sum(an.sections_dict)) = {}
    /\ HasKind(RecommendationsOf(an.out), "excede o limite de todos os modelos conhecidos")

\* the _extract_content_sample call has been answered
Sampled == an.op = "_extract_content_sample" /\ an.state = "done"

\* C16: analyze_sections called with an empty mapping, and
\* _extract_content_sample called with empty text, raise ValueError to their
\* caller and return nothing.
C16_EmptyInputIsValueError ==
    /\ (Analyzed /\ an.sections_dict = <<>>) => an.out = Raised("ValueError")
    /\ (Sampled /\ an.content = <<>>) => an.out = Raised("ValueError")

\* analyze_sections was called with the empty mapping and raised
C16_Witness ==
    /\ Analyzed
    /\ an.sections_dict = <<>>
    /\ an.out.raised = "ValueError"

\* _extract_content_sample was called with empty text, a section map that
\* has text and room for it, and raised
C16_WitnessSample ==
    /\ Sampled
    /\ an.content = <<>>
    /\ HasText(an.section_map, KeySummary)
    /\ an.max_size > 0
    /\ an.out.raised = "ValueError"

\* C17: for every non-empty text, every section map and every max_size N,
\* _extract_content_sample returns a str of at most N characters, whether it
\* is the sample assembled from the sections or, after an internal failure,
\* a prefix of the text.
C17_SampleWithinMaxSize ==
    (Sampled /\ an.content # <<>>)
        => /\ an.out.raised = None
           /\ Len(an.out.value) <= an.max_size

\* the sample assembled from the sections was longer than max_size and came
\* back cut to it
C17_Witness ==
    /\ Sampled
    /\ an.content # <<>>
    /\ ~TryRaises(an.section_map, an.max_size)
    /\ an.max_size > 0
    /\ Len(Join(SampleBeforeTitles(an.section_map, an.max_size))) > an.max_size
    /\ an.out.raised = None
    /\ Len(an.out.value) = an.max_size

\* the try block failed and a proper prefix of the text came back
C17_WitnessFallback ==
    /\ Sampled
    /\ TryRaises(an.section_map, an.max_size)
    /\ Len(an.content) > an.max_size
    /\ an.max_size > 0
    /\ an.out = Returned(Take(an.content, an.max_size))

\* the _detect_content_type call has been answered / answered twice
Detected == an.op = "_detect_content_type" /\ an.state \in {"done", "twice"}
DetectedTwice == an.op = "_detect_content_type" /\ an.state = "twice"

\* C18: _detect_content_type returns None exactly when the greatest score
\* (keyword hits plus structural bonuses) is <= 1; otherwise it returns the
\* label with the greatest score, the first of them in the order of the
\* table when several share it; and a second call on the same sample and
\* section map returns what the first did.
C18_DetectContentType ==
    /\ Detected =>
         \A scores \in {Scores(an.content, an.section_map)} :
             /\ (an.out.value = None) <=> (\A i \in 1..Len(scores) : scores[i] <= 1)
             /\ an.out.value # None =>
                  \E i \in 1..Len(scores) :
                      /\ an.out.value = indicators[i][1]
                      /\ \A k \in 1..Len(scores) : scores[k] <= scores[i]
                      /\ \A k \in 1..(i - 1) : scores[k] < scores[i]
    /\ DetectedTwice => an.again = an.out

\* the count_tokens call has been answered
Counted == an.op = "count_tokens" /\ an.state = "done"

\* C21: count_tokens never raises to its caller, for any text and any model
\* identifier: it returns 0 for empty or None text whatever the model, and
\* when the encoding of the text fails it returns len(text) // 4 (the
\* fallback to 1 is for a failing len, which a string never has).
C21_CountTokensNeverRaises ==
    Counted =>
        /\ an.out.raised = None
        /\ (an.text = NoneObject \/ an.text = Str(<<>>)) => an.out.value = 0
        /\ (an.text.type = "str" /\ an.text.chars # <<>> /\ an.env.encode # "tokens") =>
               an.out.value = Len(an.text.chars) \div 4

\* the request names neither a file nor a URL, or both
NoSource(r) == r.file = NoneObject /\ r.url.chars = <<>>
TwoSources(r) == r.file # NoneObject /\ r.url.chars # <<>>

\* params that are JSON but no ConversionRequest: not an object, a field
\* outside its type or range, or chunk_overlap >= chunk_size
FailsValidation(text) ==
    \/ text.json \in {"array", "null"}
    \/ text.json = "object" /\ ~FieldsValid(text.fields)
    \/ /\ text.json = "object"
       /\ {"chunk_size", "chunk_overlap"} \subseteq DOMAIN text.fields
       /\ text.fields["chunk_overlap"].n >= text.fields["chunk_size"].n

\* the request is invalid: neither file nor URL, both, an upload whose
\* extension is not supported, content larger than MAX_FILE_SIZE, params
\* that are not JSON, or params that fail the validation of ConversionRequest
Invalid(r) ==
    \/ NoSource(r)
    \/ TwoSources(r)
    \/ r.file # NoneObject /\ FileExt(r.file.chars) \notin SUPPORTED_FORMATS
    \/ r.size > MAX_FILE_SIZE
    \/ r.params.json = "malformed"
    \/ FailsValidation(r.params)

C22_WitnessValid ==
    /\ req.stage = "answered"
    /\ req.http = 200
    /\ ~Invalid(req)
    /\ redis[1] # EmptyHash

\* processar_em_lote has returned
BatchDone == an.op = "processar_em_lote" /\ an.state = "done"

\* the names of the directory that match the pattern
Matching == {nome \in DOMAIN an.dir : GlobMatches(nome, an.padrao)}

\* C23: processar_em_lote returns exactly one result entry per file matching
\* the pattern, each with status success or error; a file whose conversion
\* raises has status error and the files after it are processed as if it
\* had not raised (each entry depends on its own file only); an empty
\* directory yields an empty result.
C23_OneEntryPerFile ==
    BatchDone =>
        \A resultados \in {an.out.value} :
            /\ Len(resultados) = Cardinality(Matching)
            /\ \A nome \in Matching : Cardinality({i \in 1..Len(resultados) : resultados[i][1] = nome}) = 1
            /\ \A i \in 1..Len(resultados) :
                  /\ resultados[i][1] \in Matching
                  /\ resultados[i][2].status \in {"success", "error"}
                  /\ resultados[i][2].status = "error" <=> an.dir[resultados[i][1]] # "doc"
                  /\ resultados[i][2].nome = resultados[i][1]
            /\ DOMAIN an.dir = {} => resultados = <<>>

\* three files were listed, the conversion of the first raised and the two
\* after it were converted
C23_Witness ==
    /\ BatchDone
    /\ Len(an.out.value) = 3
    /\ an.out.value[1][2].status = "error"
    /\ an.out.value[2][2].status = "success"
    /\ an.out.value[3][2].status = "success"

\* the directory is empty and the result is empty
C23_WitnessEmpty ==
    /\ BatchDone
    /\ DOMAIN an.dir = {}
    /\ an.out.value = <<>>

\* the store writes of job j that carry a result / the 0.9 checkpoint
ResultWrites(j) == SelectSeq(calls[j], LAMBDA c : c.op = "hset" /\ "result" \in DOMAIN c.mapping)
Checkpoint09(j) == \E i \in 1..Len(calls[j]) : calls[j][i].op = "hset" /\ Get(calls[j][i].mapping, "progress") = "0.9"

\* the profile of job j is llms-full and its llms output has tokens
FullWithTokens(j) == params[j].profile = "llms-full" /\ resultado[j] > 0

\* C24: the token budget analysis runs only when the requested profile is
\* llms-full and the llms output has a token count greater than 0; in every
\* other case the persisted result has analysis = null, and the 0.9
\* progress checkpoint is written only when the analysis ran.
C24_AnalysisOnlyForFullProfile ==
    \A j \in JobIds :
        /\ \A i \in 1..Len(ResultWrites(j)) :
              json_loads(ResultWrites(j)[i].mapping["result"]).analysis # "null" <=> FullWithTokens(j)
        /\ Checkpoint09(j) => FullWithTokens(j)
        /\ pc[j] = "p_hset09" => FullWithTokens(j)

\* a llms-full job with tokens has completed with its analysis and the 0.9
\* checkpoint
C24_Witness ==
    /\ pc[1] = "done"
    /\ FullWithTokens(1)
    /\ Checkpoint09(1)
    /\ Len(ResultWrites(1)) = 1
    /\ json_loads(ResultWrites(1)[1].mapping["result"]).analysis = "dict"

\* a llms-min job with tokens has completed without analysis and without
\* the 0.9 checkpoint
C24_WitnessMin ==
    /\ pc[1] = "done"
    /\ params[1].profile = "llms-min"
    /\ resultado[1] > 0
    /\ ~Checkpoint09(1)
    /\ Len(ResultWrites(1)) = 1
    /\ json_loads(ResultWrites(1)[1].mapping["result"]).analysis = "null"

\* the requests that passed rate_limiter with the bucket key of minute b
Passed(b) == {r \in Requests : rl.reqs[r].outcome = "passed" /\ rl.reqs[r].bucket = b}

\* C26: with an API key configured, at most RATE_LIMIT requests pass
\* rate_limiter per key and one-minute bucket and every further request of
\* the bucket is rejected with 429, under any interleaving; with no API key
\* configured no request is rate limited.
C26_AtMostRateLimitPerBucket ==
    rl.stage = "on" =>
        /\ rl.api_key => \A b \in Buckets : Cardinality(Passed(b)) <= RATE_LIMIT
        /\ ~rl.api_key => \A r \in Requests : rl.reqs[r].outcome \in {"", "passed"}

\* C27: under every interleaving of get_job_status with the background
\* routine and with TTL expiry, get_job_status returns not-found or one of
\* the statuses created, processing, completed, failed; it never returns a
\* record whose status is missing.
C27_StatusIsNeverMissing ==
    (reader.op = "status" /\ reader.returns = "tuple") =>
        reader.ret.status \in {"not_found", "created", "processing", "completed", "failed"}

\* create_conversion_job and the routine of job j are over
Quiescent(j) == cpc[j] \in {"returned", "raised"} /\ pc[j] \in {"none", "done", "escaped"}

\* C28: every job record that exists in the store carries an expiration:
\* once create_conversion_job and process_document have done their steps for
\* a job (also steps taken after TTL_PROCESSING elapsed), its record is not
\* left in the store without a TTL.
C28_NoRecordWithoutTTL ==
    \A j \in JobIds : (Quiescent(j) /\ Exists(j)) => ttl[j] # NoTTL

\* C29: create_conversion_job is all-or-nothing: when the call is over,
\* failed or not, a record it wrote that is in status created has a
\* background routine scheduled for it.
C29_CreatedRecordHasRoutine ==
    \A j \in JobIds :
        (cpc[j] \in {"returned", "raised"} /\ Exists(j) /\ Get(redis[j], "status") = "created") => tasks[j] >= 1


\* analyze_document has returned an analysis
DocumentAnalyzed == an.op = "analyze_document" /\ an.state = "done" /\ an.out.raised = None

\* C30: every label that _detect_content_type can return is a key of the
\* chunking table, so in the result of analyze_document content_type and
\* chunking_recommendation are both absent or both present, and when present
\* chunking_recommendation is a non-null entry with chunk_overlap < chunk_size.
C30_DetectedTypeHasChunking ==
    /\ \A i \in 1..Len(indicators) : ChunkingGet(indicators[i][1]) # NoneEntry
    /\ Detected /\ an.out.value # None => ChunkingGet(an.out.value) # NoneEntry
    /\ DocumentAnalyzed /\ an.out.value.typed =>
          /\ an.out.value.content_type # None
          /\ ~an.out.value.chunking_recommendation.none
          /\ an.out.value.chunking_recommendation.chunk_overlap < an.out.value.chunking_recommendation.chunk_size
    /\ DocumentAnalyzed /\ ~an.out.value.typed =>
          /\ an.out.value.content_type = None
          /\ an.out.value.chunking_recommendation.none

C30_Witness ==
    /\ DocumentAnalyzed
    /\ an.out.value.typed
    /\ an.out.value.content_type = "documento_legal"
    /\ an.out.value.chunking_recommendation.chunk_size = 800
    /\ an.out.value.chunking_recommendation.chunk_overlap = 200

C30_WitnessUntyped == DocumentAnalyzed /\ ~an.out.value.typed

====
